---- MODULE Spec2Model ----
(***************************************************************************)
(* A model of go-relay-server: the durable retry queue (queue/queue.go)    *)
(* and the multi-listener server lifecycle (server/server.go).             *)
(***************************************************************************)
EXTENDS Integers, Sequences, FiniteSets, TLC

(***************************************************************************)
(* Bounds of the model and the queue configuration it runs with.           *)
(***************************************************************************)
\* queue.Config.MaxQueueSize (max_queue_size)
MaxQueueSize == 2
\* queue.Config.MaxRetries (max_retries)
MaxRetries == 1
\* queue.Config.RetryInterval, in clock ticks
RetryInterval == 1
\* the clock stops advancing here
MaxTime == 3
\* at most this many items are ever admitted by Enqueue, and neither collection
\* grows beyond this many entries
MaxItems == 3
\* Start (alone or inside Restart) opens listeners at most this many times
MaxStarts == 2
\* at most this many client connections are accepted
MaxConns == 2
\* a Session reads at most this many lines
MaxLines == 4

\* a block list has at most this many entries
MaxEntries == 2
\* config.RateLimiting.RequestsPerMinute
RequestsPerMinute == 2
\* time.Minute, in ticks
Minute == 2

Payloads == {"a"}

\* config.RateLimiting.ExemptIPs
ExemptIPs == <<"127.0.0.1">>

VARIABLES
    now,          \* time.Now(), in ticks
    items,        \* Queue.items: the pending collection
    failedItems,  \* Queue.failedItems: the failed ledger
    held,         \* items a caller holds after Dequeue (the returned *QueueItem)
    itemsFile,    \* <storagePath>/items.dat
    failedFile,   \* <storagePath>/failed_items.dat
    persistPc,    \* position of the persist worker inside persistToDisk
    nextUid,      \* number of the next admitted item (names the object)
    retryLog,     \* per item: the results of the Retry calls made on it
    persisted,    \* items a completed write put on disk, not yet delivered or cleared
    last,         \* the last API call on the queue and its outcome
    running,      \* Server.running
    quit,         \* Server.quit: the channel the field holds now
    closedCh,     \* the channels close() has been called on
    listeners,    \* Server.listeners
    lnOpen,       \* the listener sockets that are open
    nextLn,       \* number of the next listener socket
    wg,           \* Server.wg: the WaitGroup counter
    loopPc,       \* per listener: where its acceptConnections goroutine is
    sess,         \* per listener: the Session goroutines it spawned that still run
    conns,        \* connections accepted so far
    ctl,          \* the goroutine calling Start, Stop and Restart
    stoppedLns,   \* listeners whose loops were started before a Stop() that returned
    rolledBack,   \* listeners opened by a Start() that returned the listener error
    lnCfg,        \* per listener socket: the configured listener it was opened for
    panicked,     \* the process died of a runtime panic
    sPc,          \* where one Session (handleConnection) is
    sEnc,         \* cfg.Encryption of the listener that accepted it
    sRemote,      \* conn.RemoteAddr().String()
    sTLS,         \* conn has been replaced by tls.Server(conn, ...)
    sOut,         \* the response lines written, each with the channel it went to
    sFrom,        \* the local variable from
    sTo,          \* the local variable to
    sReads,       \* lines read from the client so far
    relays,       \* the calls of relay.RelayEmail made by the Session
    conLog,       \* the connections admitted past the checks of handleConnection
    requests,     \* rateLimiter.requests
    lastTime,     \* rateLimiter.lastTime
    grants,       \* per IP: the calls of allow that returned true since its last reset
    calls,        \* per IP: the result of its last call of allow
    rlRet,        \* the last call of allow and what it did
    pfTarget,     \* isBlocked: the target of the last call
    pfList,       \* isBlocked: s.Config.BlockList at the last call
    pfRet,        \* isBlocked: what the last call returned
    snap          \* the items in the two files as the last complete write cycle left them

qvars == <<now, items, failedItems, held, itemsFile, failedFile, persistPc,
           nextUid, retryLog, persisted, last>>

svars == <<running, quit, closedCh, listeners, lnOpen, nextLn, wg, loopPc, sess,
           conns, ctl, stoppedLns, rolledBack, lnCfg, panicked>>

hvars == <<sPc, sEnc, sRemote, sTLS, sOut, sFrom, sTo, sReads, relays>>

lvars == <<requests, lastTime, grants, calls, rlRet>>

pvars == <<pfTarget, pfList, pfRet>>

vars == <<qvars, svars, hvars, lvars, conLog, pvars, snap>>

(***************************************************************************)
(* Helpers on sequences.                                                   *)
(***************************************************************************)
RemoveAt(s, i) == SubSeq(s, 1, i - 1) \o SubSeq(s, i + 1, Len(s))

Range(s) == {s[i] : i \in 1..Len(s)}

(***************************************************************************)
(* Data.                                                                   *)
(***************************************************************************)
\* generateID: the decimal text of time.Now().UnixNano()
generateID(t) == t

\* the QueueItem literal built by Enqueue
NewItem(uid, data, t) ==
    [uid |-> uid, ID |-> generateID(t), Data |-> data, Attempts |-> 0,
     NextRetry |-> t, CreatedAt |-> t]

\* the FailedItem literal built by Retry
NewFailed(item, t) ==
    [Item |-> item, Error |-> "max retries exceeded", Timestamp |-> t,
     Retries |-> item.Attempts]

NoFile == [exists |-> FALSE, data |-> <<>>]

\* json.Marshal of one *QueueItem: the object's fields, in declaration order
MarshalItem(it) == <<it.uid, it.ID, it.Data, it.Attempts, it.NextRetry, it.CreatedAt>>

\* a decoder that does not read the attempt count back
UnmarshalItemNoAttempts(t) ==
    [uid |-> t[1], ID |-> t[2], Data |-> t[3], Attempts |-> 0,
     NextRetry |-> t[5], CreatedAt |-> t[6]]

UnmarshalItem(t) ==
    [uid |-> t[1], ID |-> t[2], Data |-> t[3], Attempts |-> t[4],
     NextRetry |-> t[5], CreatedAt |-> t[6]]

MarshalFailed(f) == <<MarshalItem(f.Item), f.Error, f.Timestamp, f.Retries>>

UnmarshalFailed(t) ==
    [Item |-> UnmarshalItem(t[1]), Error |-> t[2], Timestamp |-> t[3],
     Retries |-> t[4]]

\* json.Marshal(q.items) written by os.WriteFile
EncodeItems(s) == [exists |-> TRUE, data |-> [i \in 1..Len(s) |-> MarshalItem(s[i])]]

EncodeFailed(s) == [exists |-> TRUE, data |-> [i \in 1..Len(s) |-> MarshalFailed(s[i])]]

\* loadFromDisk: a file that is absent leaves the collection as NewQueue made it
DecodeItems(f) ==
    IF f.exists THEN [i \in 1..Len(f.data) |-> UnmarshalItem(f.data[i])] ELSE <<>>

DecodeFailed(f) ==
    IF f.exists THEN [i \in 1..Len(f.data) |-> UnmarshalFailed(f.data[i])] ELSE <<>>

\* the record of an API call and what it returned
Call(op, err, uid) == [op |-> op, err |-> err, uid |-> uid]

\* a persist worker that does not take the queue mutex
LockNeverHeld == TRUE

\* the queue mutex is free (the persist worker holds it across both writes)
LockFree == persistPc = "idle"

(***************************************************************************)
(* Initial state: NewQueue on an empty storage directory.                  *)
(***************************************************************************)
QInit ==
    /\ now = 0
    /\ items = <<>>
    /\ failedItems = <<>>
    /\ held = {}
    /\ itemsFile = NoFile
    /\ failedFile = NoFile
    /\ persistPc = "idle"
    /\ nextUid = 1
    /\ retryLog = [u \in 1..MaxItems |-> <<>>]
    /\ persisted = {}
    /\ last = [op |-> "NewQueue", err |-> "", uid |-> 0]
    /\ snap = {}

(***************************************************************************)
(* Queue operations.                                                       *)
(***************************************************************************)
Tick ==
    /\ now < MaxTime
    /\ now' = now + 1
    /\ UNCHANGED <<svars, hvars, lvars, conLog, pvars, snap>>
    /\ UNCHANGED <<items, failedItems, held, itemsFile, failedFile, persistPc,
                   nextUid, retryLog, persisted, last>>

\* Enqueue with the capacity test off by one (> for >=)
EnqueueOffByOne(data) ==
    /\ LockFree
    /\ IF Len(items) > MaxQueueSize
       THEN /\ last' = Call("Enqueue", "queue is full", 0)
            /\ UNCHANGED <<items, nextUid>>
       ELSE /\ nextUid <= MaxItems
            /\ items' = Append(items, NewItem(nextUid, data, now))
            /\ nextUid' = nextUid + 1
            /\ last' = Call("Enqueue", "", nextUid)
    /\ UNCHANGED <<svars, hvars, lvars, conLog, pvars, snap>>
    /\ UNCHANGED <<now, failedItems, held, itemsFile, failedFile, persistPc, retryLog,
                   persisted>>

Enqueue(data) ==
    /\ LockFree
    /\ IF Len(items) >= MaxQueueSize
       THEN /\ last' = Call("Enqueue", "queue is full", 0)
            /\ UNCHANGED <<items, nextUid>>
       ELSE /\ nextUid <= MaxItems
            /\ items' = Append(items, NewItem(nextUid, data, now))
            /\ nextUid' = nextUid + 1
            /\ last' = Call("Enqueue", "", nextUid)
    /\ UNCHANGED <<svars, hvars, lvars, conLog, pvars, snap>>
    /\ UNCHANGED <<now, failedItems, held, itemsFile, failedFile, persistPc, retryLog,
                   persisted>>

\* the index Dequeue's scan stops at, 0 when no item is ready
ReadyIndex(s, t) ==
    IF \E i \in 1..Len(s) : s[i].NextRetry < t
    THEN CHOOSE i \in 1..Len(s) :
            /\ s[i].NextRetry < t
            /\ \A j \in 1..(i - 1) : ~(s[j].NextRetry < t)
    ELSE 0

\* Dequeue that returns the ready item without removing it from pending
DequeueKeepsItem ==
    /\ LockFree
    /\ LET i == ReadyIndex(items, now) IN
       IF i = 0
       THEN /\ last' = Call("Dequeue", "no items ready for processing", 0)
            /\ UNCHANGED <<items, held>>
       ELSE /\ items' = items
            /\ held' = held \cup {items[i]}
            /\ last' = Call("Dequeue", "", items[i].uid)
    /\ UNCHANGED <<svars, hvars, lvars, conLog, pvars, snap>>
    /\ UNCHANGED <<now, failedItems, itemsFile, failedFile, persistPc, nextUid, retryLog,
                   persisted>>

\* Dequeue whose scan stops at the last ready item instead of the first
DequeueLastReady ==
    /\ LockFree
    /\ LET r == {i \in 1..Len(items) : items[i].NextRetry < now} IN
       IF r = {}
       THEN /\ last' = Call("Dequeue", "no items ready for processing", 0)
            /\ UNCHANGED <<items, held>>
       ELSE LET i == CHOOSE k \in r : \A j \in r : j <= k IN
            /\ items' = RemoveAt(items, i)
            /\ held' = held \cup {items[i]}
            /\ last' = Call("Dequeue", "", items[i].uid)
    /\ UNCHANGED <<svars, hvars, lvars, conLog, pvars, snap>>
    /\ UNCHANGED <<now, failedItems, itemsFile, failedFile, persistPc, nextUid, retryLog,
                   persisted>>

Dequeue ==
    /\ LockFree
    /\ LET i == ReadyIndex(items, now) IN
       IF i = 0
       THEN /\ last' = Call("Dequeue", "no items ready for processing", 0)
            /\ UNCHANGED <<items, held>>
       ELSE /\ items' = RemoveAt(items, i)
            /\ held' = held \cup {items[i]}
            /\ last' = Call("Dequeue", "", items[i].uid)
    /\ UNCHANGED <<svars, hvars, lvars, conLog, pvars, snap>>
    /\ UNCHANGED <<now, failedItems, itemsFile, failedFile, persistPc, nextUid, retryLog,
                   persisted>>

\* Retry with the exhaustion test off by one (> for >=)
RetryOffByOne(item) ==
    /\ LockFree
    /\ item \in held
    /\ held' = held \ {item}
    /\ IF item.Attempts > MaxRetries
       THEN /\ Len(failedItems) < MaxItems
            /\ failedItems' = Append(failedItems, NewFailed(item, now))
            /\ last' = Call("Retry", "max retries exceeded", item.uid)
            /\ retryLog' = [retryLog EXCEPT ![item.uid] = Append(@, FALSE)]
            /\ UNCHANGED items
       ELSE /\ Len(items) < MaxItems
            /\ items' = Append(items, [item EXCEPT !.Attempts = @ + 1,
                                                   !.NextRetry = now + RetryInterval])
            /\ last' = Call("Retry", "", item.uid)
            /\ retryLog' = [retryLog EXCEPT ![item.uid] = Append(@, TRUE)]
            /\ UNCHANGED failedItems
    /\ UNCHANGED <<svars, hvars, lvars, conLog, pvars, snap>>
    /\ UNCHANGED <<now, itemsFile, failedFile, persistPc, nextUid, persisted>>

\* Retry that gives up one attempt early
RetryFailsEarly(item) ==
    /\ LockFree
    /\ item \in held
    /\ held' = held \ {item}
    /\ IF item.Attempts + 1 >= MaxRetries
       THEN /\ Len(failedItems) < MaxItems
            /\ failedItems' = Append(failedItems, NewFailed(item, now))
            /\ last' = Call("Retry", "max retries exceeded", item.uid)
            /\ retryLog' = [retryLog EXCEPT ![item.uid] = Append(@, FALSE)]
            /\ UNCHANGED items
       ELSE /\ Len(items) < MaxItems
            /\ items' = Append(items, [item EXCEPT !.Attempts = @ + 1,
                                                   !.NextRetry = now + RetryInterval])
            /\ last' = Call("Retry", "", item.uid)
            /\ retryLog' = [retryLog EXCEPT ![item.uid] = Append(@, TRUE)]
            /\ UNCHANGED failedItems
    /\ UNCHANGED <<svars, hvars, lvars, conLog, pvars, snap>>
    /\ UNCHANGED <<now, itemsFile, failedFile, persistPc, nextUid, persisted>>

\* Retry whose delay grows with the attempt number
RetryBackoffGrows(item) ==
    /\ LockFree
    /\ item \in held
    /\ held' = held \ {item}
    /\ IF item.Attempts >= MaxRetries
       THEN /\ Len(failedItems) < MaxItems
            /\ failedItems' = Append(failedItems, NewFailed(item, now))
            /\ last' = Call("Retry", "max retries exceeded", item.uid)
            /\ retryLog' = [retryLog EXCEPT ![item.uid] = Append(@, FALSE)]
            /\ UNCHANGED items
       ELSE /\ Len(items) < MaxItems
            /\ items' = Append(items, [item EXCEPT !.Attempts = @ + 1,
                                                   !.NextRetry = now + RetryInterval * (item.Attempts + 2)])
            /\ last' = Call("Retry", "", item.uid)
            /\ retryLog' = [retryLog EXCEPT ![item.uid] = Append(@, TRUE)]
            /\ UNCHANGED failedItems
    /\ UNCHANGED <<svars, hvars, lvars, conLog, pvars, snap>>
    /\ UNCHANGED <<now, itemsFile, failedFile, persistPc, nextUid, persisted>>

Retry(item) ==
    /\ LockFree
    /\ item \in held
    /\ held' = held \ {item}
    /\ IF item.Attempts >= MaxRetries
       THEN /\ Len(failedItems) < MaxItems
            /\ failedItems' = Append(failedItems, NewFailed(item, now))
            /\ last' = Call("Retry", "max retries exceeded", item.uid)
            /\ retryLog' = [retryLog EXCEPT ![item.uid] = Append(@, FALSE)]
            /\ UNCHANGED items
       ELSE /\ Len(items) < MaxItems
            /\ items' = Append(items, [item EXCEPT !.Attempts = @ + 1,
                                                   !.NextRetry = now + RetryInterval])
            /\ last' = Call("Retry", "", item.uid)
            /\ retryLog' = [retryLog EXCEPT ![item.uid] = Append(@, TRUE)]
            /\ UNCHANGED failedItems
    /\ UNCHANGED <<svars, hvars, lvars, conLog, pvars, snap>>
    /\ UNCHANGED <<now, itemsFile, failedFile, persistPc, nextUid, persisted>>

\* the caller delivered a dequeued item and drops it
Consume(item) ==
    /\ item \in held
    /\ held' = held \ {item}
    /\ persisted' = persisted \ {item.uid}
    /\ UNCHANGED <<svars, hvars, lvars, conLog, pvars, snap>>
    /\ UNCHANGED <<now, items, failedItems, itemsFile, failedFile, persistPc,
                   nextUid, retryLog, last>>

ClearFailedItems ==
    /\ LockFree
    /\ failedItems' = <<>>
    /\ persisted' = persisted \ {failedItems[i].Item.uid : i \in 1..Len(failedItems)}
    /\ last' = Call("ClearFailedItems", "", 0)
    /\ UNCHANGED <<svars, hvars, lvars, conLog, pvars, snap>>
    /\ UNCHANGED <<now, items, held, itemsFile, failedFile, persistPc, nextUid, retryLog>>

\* the index RequeueFailedItem's scan stops at, 0 when no entry has the id
FailedIndex(s, id) ==
    IF \E i \in 1..Len(s) : s[i].Item.ID = id
    THEN CHOOSE i \in 1..Len(s) :
            /\ s[i].Item.ID = id
            /\ \A j \in 1..(i - 1) : s[j].Item.ID # id
    ELSE 0

\* RequeueFailedItem that forgets to reset the attempt count
RequeueKeepsAttempts(id) ==
    /\ LockFree
    /\ LET i == FailedIndex(failedItems, id) IN
       IF i = 0
       THEN /\ last' = Call("RequeueFailedItem", "not found", 0)
            /\ UNCHANGED <<items, failedItems>>
       ELSE /\ Len(items) < MaxItems
            /\ items' = Append(items, [failedItems[i].Item EXCEPT !.NextRetry = now])
            /\ failedItems' = RemoveAt(failedItems, i)
            /\ last' = Call("RequeueFailedItem", "", failedItems[i].Item.uid)
    /\ UNCHANGED <<svars, hvars, lvars, conLog, pvars, snap>>
    /\ UNCHANGED <<now, held, itemsFile, failedFile, persistPc, nextUid, retryLog,
                   persisted>>

RequeueFailedItem(id) ==
    /\ LockFree
    /\ LET i == FailedIndex(failedItems, id) IN
       IF i = 0
       THEN /\ last' = Call("RequeueFailedItem", "not found", 0)
            /\ UNCHANGED <<items, failedItems>>
       ELSE /\ Len(items) < MaxItems
            /\ items' = Append(items, [failedItems[i].Item EXCEPT !.Attempts = 0,
                                                                  !.NextRetry = now])
            /\ failedItems' = RemoveAt(failedItems, i)
            /\ last' = Call("RequeueFailedItem", "", failedItems[i].Item.uid)
    /\ UNCHANGED <<svars, hvars, lvars, conLog, pvars, snap>>
    /\ UNCHANGED <<now, held, itemsFile, failedFile, persistPc, nextUid, retryLog,
                   persisted>>

\* persistToDisk, first half: takes the lock and writes items.dat
PersistItems ==
    /\ persistPc = "idle"
    /\ itemsFile' = EncodeItems(items)
    /\ persistPc' = "mid"
    /\ persisted' = persisted \cup {items[i].uid : i \in 1..Len(items)}
    /\ UNCHANGED <<svars, hvars, lvars, conLog, pvars, snap>>
    /\ UNCHANGED <<now, items, failedItems, held, failedFile, nextUid, retryLog, last>>

\* persistToDisk, second half: writes failed_items.dat and releases the lock
PersistFailed ==
    /\ persistPc = "mid"
    /\ failedFile' = EncodeFailed(failedItems)
    /\ persistPc' = "idle"
    /\ persisted' = persisted \cup {failedItems[i].Item.uid : i \in 1..Len(failedItems)}
    /\ snap' = {items[i].uid : i \in 1..Len(items)} \cup
                {failedItems[i].Item.uid : i \in 1..Len(failedItems)}
    /\ UNCHANGED <<svars, hvars, lvars, conLog, pvars>>
    /\ UNCHANGED <<now, items, failedItems, held, itemsFile, nextUid, retryLog, last>>

\* the process stops at any point and a fresh queue is built by NewQueue
NewQueue ==
    /\ items' = DecodeItems(itemsFile)
    /\ failedItems' = DecodeFailed(failedFile)
    /\ held' = {}
    /\ persistPc' = "idle"
    /\ retryLog' = [u \in 1..MaxItems |-> <<>>]
    /\ last' = Call("NewQueue", "", 0)
    /\ snap' = {DecodeItems(itemsFile)[i].uid : i \in 1..Len(DecodeItems(itemsFile))} \cup
                {DecodeFailed(failedFile)[i].Item.uid : i \in 1..Len(DecodeFailed(failedFile))}
    /\ UNCHANGED <<svars, hvars, lvars, conLog, pvars>>
    /\ UNCHANGED <<now, itemsFile, failedFile, nextUid, persisted>>

QNext ==
    \/ Tick
    \/ \E d \in Payloads : Enqueue(d)
    \/ Dequeue
    \/ \E it \in held : Retry(it)
    \/ \E it \in held : Consume(it)
    \/ ClearFailedItems
    \/ \E id \in 0..MaxTime : RequeueFailedItem(id)

\* Enqueue in the specification with the persist worker and restarts: one
\* admission fewer keeps the product with the disk contents small
EnqueueDur(data) == nextUid < MaxItems /\ Enqueue(data)

DurNext ==
    \/ Tick
    \/ \E d \in Payloads : EnqueueDur(d)
    \/ Dequeue
    \/ \E it \in held : Retry(it)
    \/ \E it \in held : Consume(it)
    \/ ClearFailedItems
    \/ \E id \in 0..MaxTime : RequeueFailedItem(id)
    \/ PersistItems
    \/ PersistFailed
    \/ NewQueue

(***************************************************************************)
(* A delivery worker on the queue: it dequeues an item, attempts delivery, *)
(* and calls Retry on the item when the attempt failed.                    *)
(***************************************************************************)
\* the clock runs this far: long enough for an item admitted at MaxTime to
\* use up its retries
WorkerHorizon == MaxTime + (MaxRetries + 1) * (RetryInterval + 1)

\* time passes while the worker has no item in hand and none is due
WTick ==
    /\ held = {}
    /\ ReadyIndex(items, now) = 0
    /\ now < WorkerHorizon
    /\ now' = now + 1
    /\ UNCHANGED <<svars, hvars, lvars, conLog, pvars, snap>>
    /\ UNCHANGED <<items, failedItems, held, itemsFile, failedFile, persistPc,
                   nextUid, retryLog, persisted, last>>

\* a producer admits items up to MaxTime
WEnqueue(data) == now <= MaxTime /\ Enqueue(data)

\* the worker asks for the next item when it has none in hand
WDequeue == held = {} /\ Dequeue

\* the delivery attempt on the item in hand ends: Retry after a failure
WDeliver == \E it \in held : Retry(it) \/ Consume(it)

WNext ==
    \/ WTick
    \/ \E d \in Payloads : WEnqueue(d)
    \/ WDequeue
    \/ \E it \in held : Retry(it)
    \/ \E it \in held : Consume(it)

(***************************************************************************)
(* The server lifecycle: Start, Stop, Restart and the accept loops.        *)
(***************************************************************************)
\* Config.Listeners: the encryption of each configured listener
Encryption == <<"none", "starttls">>

NumListeners == Len(Encryption)

\* listener sockets 1..MaxLn can be opened: enough for MaxStarts calls of Start
MaxLn == NumListeners * MaxStarts

\* the goroutines that can call the Server's methods
Threads == {"t1", "t2"}

\* the one goroutine that calls them when the calls are made in sequence
Callers == {"t1"}

NeedsTLS == \E k \in 1..NumListeners : Encryption[k] \in {"tls", "starttls"}

\* op: the method called last; mine: the listeners the running Start() has opened
Idle == [pc |-> "idle", ret |-> <<>>, k |-> 0, res |-> "", op |-> "", mine |-> {}]

\* NewServer: not running, a fresh open quit channel, no listeners
SInit ==
    /\ running = FALSE
    /\ quit = 0
    /\ closedCh = {}
    /\ listeners = <<>>
    /\ lnOpen = {}
    /\ nextLn = 1
    /\ wg = 0
    /\ loopPc = [l \in 1..MaxLn |-> "none"]
    /\ sess = [l \in 1..MaxLn |-> 0]
    /\ conns = 0
    /\ ctl = [t \in Threads |-> Idle]
    /\ stoppedLns = {}
    /\ rolledBack = {}
    /\ lnCfg = [l \in 1..MaxLn |-> 0]
    /\ panicked = FALSE

At(t, label) == ~panicked /\ ctl[t].pc = label

Goto(t, label) == ctl' = [ctl EXCEPT ![t].pc = label]

\* return from the current method: to the caller's next step, or to idle
Return(t, res) ==
    IF ctl[t].ret = <<>>
    THEN ctl' = [ctl EXCEPT ![t] = [Idle EXCEPT !.res = res, !.op = ctl[t].op]]
    ELSE ctl' = [ctl EXCEPT ![t].pc = Head(ctl[t].ret), ![t].ret = Tail(ctl[t].ret)]

\* a goroutine calls one of the methods
CallStart(t) ==
    /\ At(t, "idle")
    /\ nextLn + NumListeners - 1 <= MaxLn
    /\ ctl' = [ctl EXCEPT ![t] = [pc |-> "StartLock", ret |-> <<>>, k |-> 0, res |-> "",
                                  op |-> "Start", mine |-> {}]]
    /\ UNCHANGED <<running, quit, closedCh, listeners, lnOpen, nextLn, wg, loopPc, sess,
                   conns, stoppedLns, rolledBack, lnCfg, panicked>>
    /\ UNCHANGED <<qvars, hvars, lvars, conLog, pvars, snap>>

CallStop(t) ==
    /\ At(t, "idle")
    /\ ctl' = [ctl EXCEPT ![t] = [pc |-> "StopLock", ret |-> <<>>, k |-> 0, res |-> "",
                                  op |-> "Stop", mine |-> {}]]
    /\ UNCHANGED <<running, quit, closedCh, listeners, lnOpen, nextLn, wg, loopPc, sess,
                   conns, stoppedLns, rolledBack, lnCfg, panicked>>
    /\ UNCHANGED <<qvars, hvars, lvars, conLog, pvars, snap>>

\* Restart: s.Stop() first, then the reset, then s.Start()
CallRestart(t) ==
    /\ At(t, "idle")
    /\ nextLn + NumListeners - 1 <= MaxLn
    /\ quit < MaxStarts
    /\ ctl' = [ctl EXCEPT ![t] = [pc |-> "StopLock", ret |-> <<"RestartReset">>,
                                  k |-> 0, res |-> "", op |-> "Restart", mine |-> {}]]
    /\ UNCHANGED <<running, quit, closedCh, listeners, lnOpen, nextLn, wg, loopPc, sess,
                   conns, stoppedLns, rolledBack, lnCfg, panicked>>
    /\ UNCHANGED <<qvars, hvars, lvars, conLog, pvars, snap>>

\* Start: the running check and set, under the lock
StartLock(t) ==
    /\ At(t, "StartLock")
    /\ IF running
       THEN /\ Return(t, "server is already running")
            /\ UNCHANGED running
       ELSE /\ running' = TRUE
            /\ Goto(t, "StartTLS")
    /\ UNCHANGED <<quit, closedCh, listeners, lnOpen, nextLn, wg, loopPc, sess,
                   conns, stoppedLns, rolledBack, lnCfg, panicked>>
    /\ UNCHANGED <<qvars, hvars, lvars, conLog, pvars, snap>>

\* Start: loadTLSConfig when a listener needs it; the key pair loads or does not
StartTLS(t) ==
    /\ At(t, "StartTLS")
    /\ \/ ctl' = [ctl EXCEPT ![t].pc = "StartListen", ![t].k = 1]
       \/ NeedsTLS /\ Return(t, "failed to load TLS certificate")
    /\ UNCHANGED <<running, quit, closedCh, listeners, lnOpen, nextLn, wg, loopPc, sess,
                   conns, stoppedLns, rolledBack, lnCfg, panicked>>
    /\ UNCHANGED <<qvars, hvars, lvars, conLog, pvars, snap>>

\* Start: createListener for listener k succeeds: append it, start its accept loop.
\* net.Listen cannot bind a port that an open listener still holds.
StartListenOk(t) ==
    /\ At(t, "StartListen")
    /\ nextLn <= MaxLn
    /\ \A l \in lnOpen : lnCfg[l] # ctl[t].k
    /\ lnCfg' = [lnCfg EXCEPT ![nextLn] = ctl[t].k]
    /\ listeners' = Append(listeners, nextLn)
    /\ lnOpen' = lnOpen \cup {nextLn}
    /\ loopPc' = [loopPc EXCEPT ![nextLn] = "select"]
    /\ nextLn' = nextLn + 1
    /\ IF ctl[t].k = NumListeners
       THEN Return(t, "ok")
       ELSE ctl' = [ctl EXCEPT ![t].k = @ + 1, ![t].mine = @ \cup {nextLn}]
    /\ UNCHANGED <<running, quit, closedCh, wg, sess, conns, stoppedLns, rolledBack,
                   panicked>>
    /\ UNCHANGED <<qvars, hvars, lvars, conLog, pvars, snap>>

\* Start: createListener for listener k fails: s.Stop(), then return the error
StartListenFail(t) ==
    /\ At(t, "StartListen")
    /\ ctl' = [ctl EXCEPT ![t].pc = "StopLock", ![t].ret = <<"StartFailed">>]
    /\ UNCHANGED <<running, quit, closedCh, listeners, lnOpen, nextLn, wg, loopPc, sess,
                   conns, stoppedLns, rolledBack, lnCfg, panicked>>
    /\ UNCHANGED <<qvars, hvars, lvars, conLog, pvars, snap>>

StartFailed(t) ==
    /\ At(t, "StartFailed")
    /\ rolledBack' = rolledBack \cup ctl[t].mine
    /\ Return(t, "failed to start listener")
    /\ UNCHANGED <<running, quit, closedCh, listeners, lnOpen, nextLn, wg, loopPc, sess,
                   conns, stoppedLns, lnCfg, panicked>>
    /\ UNCHANGED <<qvars, hvars, lvars, conLog, pvars, snap>>

\* Stop: the running check and reset, under the lock
StopLock(t) ==
    /\ At(t, "StopLock")
    /\ IF ~running
       THEN /\ Return(t, "not running")
            /\ UNCHANGED running
       ELSE /\ running' = FALSE
            /\ Goto(t, "StopQuit")
    /\ UNCHANGED <<quit, closedCh, listeners, lnOpen, nextLn, wg, loopPc, sess,
                   conns, stoppedLns, rolledBack, lnCfg, panicked>>
    /\ UNCHANGED <<qvars, hvars, lvars, conLog, pvars, snap>>

\* Stop: close(s.quit); closing a closed channel panics
StopQuit(t) ==
    /\ At(t, "StopQuit")
    /\ IF quit \in closedCh
       THEN /\ panicked' = TRUE
            /\ UNCHANGED <<closedCh, ctl>>
       ELSE /\ closedCh' = closedCh \cup {quit}
            /\ Goto(t, "StopClose")
            /\ UNCHANGED panicked
    /\ UNCHANGED <<running, quit, listeners, lnOpen, nextLn, wg, loopPc, sess,
                   conns, stoppedLns, rolledBack, lnCfg>>
    /\ UNCHANGED <<qvars, hvars, lvars, conLog, pvars, snap>>

\* Stop: listener.Close() for every listener in s.listeners
StopClose(t) ==
    /\ At(t, "StopClose")
    /\ lnOpen' = lnOpen \ Range(listeners)
    /\ Goto(t, "StopWait")
    /\ UNCHANGED <<running, quit, closedCh, listeners, nextLn, wg, loopPc, sess,
                   conns, stoppedLns, rolledBack, lnCfg, panicked>>
    /\ UNCHANGED <<qvars, hvars, lvars, conLog, pvars, snap>>

\* Stop: s.wg.Wait() returns once the counter is zero
StopWait(t) ==
    /\ At(t, "StopWait")
    /\ wg = 0
    /\ Goto(t, "StopNil")
    /\ UNCHANGED <<running, quit, closedCh, listeners, lnOpen, nextLn, wg, loopPc, sess,
                   conns, stoppedLns, rolledBack, lnCfg, panicked>>
    /\ UNCHANGED <<qvars, hvars, lvars, conLog, pvars, snap>>

\* Stop: s.listeners = nil, and Stop returns
StopNil(t) ==
    /\ At(t, "StopNil")
    /\ listeners' = <<>>
    /\ stoppedLns' = 1..(nextLn - 1)
    /\ Return(t, "stopped")
    /\ UNCHANGED <<running, quit, closedCh, lnOpen, nextLn, wg, loopPc, sess,
                   conns, rolledBack, lnCfg, panicked>>
    /\ UNCHANGED <<qvars, hvars, lvars, conLog, pvars, snap>>

\* Restart that does not replace the quit channel
RestartKeepsQuit(t) ==
    /\ At(t, "RestartReset")
    /\ running' = FALSE
    /\ Goto(t, "StartLock")
    /\ UNCHANGED <<quit, closedCh, listeners, lnOpen, nextLn, wg, loopPc, sess,
                   conns, stoppedLns, rolledBack, lnCfg, panicked>>
    /\ UNCHANGED <<qvars, hvars, lvars, conLog, pvars, snap>>

\* Restart: s.quit = make(chan struct{}); s.running = false; then s.Start()
RestartReset(t) ==
    /\ At(t, "RestartReset")
    /\ quit' = quit + 1
    /\ running' = FALSE
    /\ Goto(t, "StartLock")
    /\ UNCHANGED <<closedCh, listeners, lnOpen, nextLn, wg, loopPc, sess,
                   conns, stoppedLns, rolledBack, lnCfg, panicked>>
    /\ UNCHANGED <<qvars, hvars, lvars, conLog, pvars, snap>>

\* acceptConnections: select { case <-s.quit: return; default: ... }
LoopSelect(l) ==
    /\ ~panicked
    /\ loopPc[l] = "select"
    /\ loopPc' = [loopPc EXCEPT ![l] = IF quit \in closedCh THEN "done" ELSE "accept"]
    /\ UNCHANGED <<running, quit, closedCh, listeners, lnOpen, nextLn, wg, sess,
                   conns, ctl, stoppedLns, rolledBack, lnCfg, panicked>>
    /\ UNCHANGED <<qvars, hvars, lvars, conLog, pvars, snap>>

\* acceptConnections: listener.Accept() returns a client's connection
LoopAcceptConn(l) ==
    /\ ~panicked
    /\ loopPc[l] = "accept"
    /\ l \in lnOpen
    /\ conns < MaxConns
    /\ conns' = conns + 1
    /\ loopPc' = [loopPc EXCEPT ![l] = "spawn"]
    /\ UNCHANGED <<running, quit, closedCh, listeners, lnOpen, nextLn, wg, sess,
                   ctl, stoppedLns, rolledBack, lnCfg, panicked>>
    /\ UNCHANGED <<qvars, hvars, lvars, conLog, pvars, snap>>

\* acceptConnections: Accept() fails on the closed listener: log and continue
LoopAcceptErr(l) ==
    /\ ~panicked
    /\ loopPc[l] = "accept"
    /\ l \notin lnOpen
    /\ loopPc' = [loopPc EXCEPT ![l] = "select"]
    /\ UNCHANGED <<running, quit, closedCh, listeners, lnOpen, nextLn, wg, sess,
                   conns, ctl, stoppedLns, rolledBack, lnCfg, panicked>>
    /\ UNCHANGED <<qvars, hvars, lvars, conLog, pvars, snap>>

\* acceptConnections: s.wg.Add(1) and go handleConnection
LoopSpawn(l) ==
    /\ ~panicked
    /\ loopPc[l] = "spawn"
    /\ wg' = wg + 1
    /\ sess' = [sess EXCEPT ![l] = @ + 1]
    /\ loopPc' = [loopPc EXCEPT ![l] = "select"]
    /\ UNCHANGED <<running, quit, closedCh, listeners, lnOpen, nextLn,
                   conns, ctl, stoppedLns, rolledBack, lnCfg, panicked>>
    /\ UNCHANGED <<qvars, hvars, lvars, conLog, pvars, snap>>

\* a Session goroutine returns: defer s.wg.Done()
SessionDone(l) ==
    /\ ~panicked
    /\ sess[l] > 0
    /\ sess' = [sess EXCEPT ![l] = @ - 1]
    /\ wg' = wg - 1
    /\ UNCHANGED <<running, quit, closedCh, listeners, lnOpen, nextLn, loopPc,
                   conns, ctl, stoppedLns, rolledBack, lnCfg, panicked>>
    /\ UNCHANGED <<qvars, hvars, lvars, conLog, pvars, snap>>

\* the steps an accept loop takes without waiting for a client
LoopStep(l) ==
    \/ LoopSelect(l)
    \/ LoopAcceptErr(l)
    \/ LoopSpawn(l)

\* the steps of a method that is running
CtlStep ==
    \E t \in Threads :
        \/ StartLock(t)
        \/ StartTLS(t)
        \/ StartListenOk(t)
        \/ StartListenFail(t)
        \/ StartFailed(t)
        \/ StopLock(t)
        \/ StopQuit(t)
        \/ StopClose(t)
        \/ StopWait(t)
        \/ StopNil(t)
        \/ RestartReset(t)

SNext ==
    \/ \E t \in Callers : CallStart(t)
    \/ \E t \in Callers : CallStop(t)
    \/ \E t \in Callers : CallRestart(t)
    \/ CtlStep
    \/ \E l \in 1..MaxLn : LoopStep(l)
    \/ \E l \in 1..MaxLn : LoopAcceptConn(l)
    \/ \E l \in 1..MaxLn : SessionDone(l)

\* Start and Stop called from several goroutines at once; no client connects
ConNext ==
    \/ \E t \in Threads : CallStart(t)
    \/ \E t \in Threads : CallStop(t)
    \/ \E t \in Threads :
          \/ StartLock(t)
          \/ StartTLS(t)
          \/ StartListenOk(t)
          \/ StartListenFail(t)
          \/ StartFailed(t)
          \/ StopLock(t)
          \/ StopQuit(t)
          \/ StopClose(t)
          \/ StopWait(t)
          \/ StopNil(t)
    \/ \E l \in 1..MaxLn : LoopSelect(l)
    \/ \E l \in 1..MaxLn : LoopAcceptErr(l)

(***************************************************************************)
(* Strings, as the Go library functions the Session uses compute them.     *)
(***************************************************************************)
Lower == "abcdefghijklmnopqrstuvwxyz"

Upper == "ABCDEFGHIJKLMNOPQRSTUVWXYZ"

Digits == "0123456789"

Char(s, i) == SubSeq(s, i, i)

Rest(s) == SubSeq(s, 2, Len(s))

UpChar(c) ==
    IF \E i \in 1..Len(Lower) : Char(Lower, i) = c
    THEN Char(Upper, CHOOSE i \in 1..Len(Lower) : Char(Lower, i) = c)
    ELSE c

\* strings.ToUpper
RECURSIVE ToUpper(_)
ToUpper(s) == IF s = "" THEN "" ELSE UpChar(Char(s, 1)) \o ToUpper(Rest(s))

\* strings.HasPrefix
HasPrefix(s, p) == Len(s) >= Len(p) /\ SubSeq(s, 1, Len(p)) = p

\* strings.HasSuffix
HasSuffix(s, p) == Len(s) >= Len(p) /\ SubSeq(s, Len(s) - Len(p) + 1, Len(s)) = p

\* strings.TrimPrefix
TrimPrefix(s, p) == IF HasPrefix(s, p) THEN SubSeq(s, Len(p) + 1, Len(s)) ELSE s

\* strings.TrimSuffix
TrimSuffix(s, p) == IF HasSuffix(s, p) THEN SubSeq(s, 1, Len(s) - Len(p)) ELSE s

\* strings.Contains
Contains(s, sub) ==
    \E i \in 0..(Len(s) - Len(sub)) : SubSeq(s, i + 1, i + Len(sub)) = sub

\* strings.Index, 1-based; 0 when sub does not occur
Index(s, sub) ==
    IF Contains(s, sub)
    THEN 1 + CHOOSE i \in 0..(Len(s) - Len(sub)) :
                /\ SubSeq(s, i + 1, i + Len(sub)) = sub
                /\ \A j \in 0..(i - 1) : SubSeq(s, j + 1, j + Len(sub)) # sub
    ELSE 0

\* strings.LastIndex, 1-based; 0 when sub does not occur
LastIndex(s, sub) ==
    IF Contains(s, sub)
    THEN 1 + CHOOSE i \in 0..(Len(s) - Len(sub)) :
                /\ SubSeq(s, i + 1, i + Len(sub)) = sub
                /\ \A j \in (i + 1)..(Len(s) - Len(sub)) : SubSeq(s, j + 1, j + Len(sub)) # sub
    ELSE 0

\* strings.Split(s, sep) for a one-character separator
RECURSIVE Split(_, _)
Split(s, sep) ==
    IF Index(s, sep) = 0
    THEN <<s>>
    ELSE <<SubSeq(s, 1, Index(s, sep) - 1)>> \o Split(SubSeq(s, Index(s, sep) + 1, Len(s)), sep)

IsSpace(c) == c \in {" ", "\t"}

RECURSIVE SkipSpace(_)
SkipSpace(s) == IF s # "" /\ IsSpace(Char(s, 1)) THEN SkipSpace(Rest(s)) ELSE s

RECURSIVE TakeWord(_)
TakeWord(s) ==
    IF s = "" \/ IsSpace(Char(s, 1)) THEN "" ELSE Char(s, 1) \o TakeWord(Rest(s))

\* len(strings.Fields(line)) > 0
HasFields(line) == SkipSpace(line) # ""

\* strings.Fields(line)[0], for a line that has a field
FirstField(line) == TakeWord(SkipSpace(line))

IsDigit(c) == \E i \in 1..Len(Digits) : Char(Digits, i) = c

DigitVal(c) == (CHOOSE i \in 1..Len(Digits) : Char(Digits, i) = c) - 1

RECURSIVE DecVal(_)
DecVal(s) ==
    IF s = "" THEN 0 ELSE DecVal(SubSeq(s, 1, Len(s) - 1)) * 10 + DigitVal(Char(s, Len(s)))

IsNumber(s, maxLen) == Len(s) \in 1..maxLen /\ \A i \in 1..Len(s) : IsDigit(Char(s, i))

\* one decimal field of a dotted IPv4 address (no leading zero, at most 255)
IsOctet(s) == IsNumber(s, 3) /\ (Len(s) > 1 => Char(s, 1) # "0") /\ DecVal(s) <= 255

NoIP == <<>>

\* net.ParseIP on the dotted-decimal IPv4 form: the four octets, or NoIP (nil)
ParseIP(s) ==
    LET p == Split(s, ".") IN
    IF Len(p) = 4 /\ \A i \in 1..4 : IsOctet(p[i])
    THEN [i \in 1..4 |-> DecVal(p[i])]
    ELSE NoIP

NoNet == [ok |-> FALSE, ip |-> NoIP, bits |-> 0]

\* net.ParseCIDR on the IPv4 form a.b.c.d/n
ParseCIDR(s) ==
    LET p == Split(s, "/") IN
    IF Len(p) = 2 /\ ParseIP(p[1]) # NoIP /\ IsNumber(p[2], 2) /\ DecVal(p[2]) <= 32
    THEN [ok |-> TRUE, ip |-> ParseIP(p[1]), bits |-> DecVal(p[2])]
    ELSE NoNet

Pow2(n) == IF n = 0 THEN 1 ELSE 2 ^ n

\* IPNet.Contains: the leading `bits` bits of the two addresses agree
NetContains(net, ip) ==
    LET hi(a) == a[1] * 256 + a[2]
        lo(a) == a[3] * 256 + a[4]
    IN IF net.bits <= 16
       THEN hi(ip) \div Pow2(16 - net.bits) = hi(net.ip) \div Pow2(16 - net.bits)
       ELSE /\ hi(ip) = hi(net.ip)
            /\ lo(ip) \div Pow2(32 - net.bits) = lo(net.ip) \div Pow2(32 - net.bits)

\* net.SplitHostPort: the host, for host:port and [host]:port
SplitOk(addr) ==
    LET i == LastIndex(addr, ":") IN
    /\ i > 0
    /\ LET h == SubSeq(addr, 1, i - 1) IN
       IF HasPrefix(h, "[")
       THEN HasSuffix(h, "]")
       ELSE ~Contains(h, ":") /\ ~Contains(h, "]")

SplitHost(addr) ==
    LET h == SubSeq(addr, 1, LastIndex(addr, ":") - 1) IN
    IF HasPrefix(h, "[") THEN SubSeq(h, 2, Len(h) - 1) ELSE h

(***************************************************************************)
(* PolicyFilter.                                                           *)
(***************************************************************************)
\* Config.BlockList
BlockList == <<"spamdomain.com", "10.0.0.1">>

\* isBlocked without the CIDR case
EntryBlocksNoCIDR(target, blocked) ==
    IF ParseIP(target) = NoIP
    THEN Contains(target, blocked)
    ELSE IF ParseIP(blocked) # NoIP
         THEN ParseIP(blocked) = ParseIP(target)
         ELSE Contains(target, blocked)

\* isBlocked: does one block-list entry match the target
EntryBlocks(target, blocked) ==
    IF ParseIP(target) = NoIP
    THEN Contains(target, blocked)
    ELSE IF ParseIP(blocked) # NoIP
         THEN ParseIP(blocked) = ParseIP(target)
         ELSE IF ParseCIDR(blocked).ok
              THEN NetContains(ParseCIDR(blocked), ParseIP(target))
              ELSE Contains(target, blocked)

\* isBlocked with the block list it ranges over
isBlockedBy(target, list) == \E i \in 1..Len(list) : EntryBlocks(target, list[i])

isBlocked(target) == isBlockedBy(target, BlockList)

\* the targets isBlocked is called with: source addresses and recipients
Targets ==
    {"10.0.0.5", "10.0.0.1", "10.0.1.5", "192.0.2.7", "c@spamdomain.com",
     "C@SPAMDOMAIN.COM", "b@example.org", "a@10.0.0.0/24", "a@[10.0.0.1]"}

\* the entries a block list is made of
Entries == <<"10.0.0.0/24", "10.0.1.0/24", "10.0.0.1", "spamdomain.com", "10.0.", "10.0.0.5/32">>

\* the block lists of at most MaxEntries entries
BlockLists ==
    UNION {[1..n -> Range(Entries)] : n \in 0..MaxEntries}

PInit ==
    /\ pfTarget = ""
    /\ pfList = <<>>
    /\ pfRet = FALSE

\* one call of isBlocked on a Server configured with the block list, which is
\* the same at every call on that Server
CheckBlocked(target, list) ==
    /\ pfTarget = "" \/ list = pfList
    /\ pfTarget' = target
    /\ pfList' = list
    /\ pfRet' = isBlockedBy(target, list)
    /\ UNCHANGED <<qvars, svars, hvars, lvars, conLog, snap>>

PNext == \E target \in Targets, list \in BlockLists : CheckBlocked(target, list)

(***************************************************************************)
(* Relay routing.                                                          *)
(***************************************************************************)
\* Config.DefaultRelay
DefaultRelay == "smtp.example.com:25"

\* Config.DomainRouting: domain key and relay server of each entry
DomainRouting ==
    {<<"example.org", "smtp.example.org:25">>, <<"example.net", "smtp.example.net:25">>}

\* RelayEmail: the servers its loop over the routing map can stop at; the map
\* is ranged over in an unspecified order, so any matching entry can come first
RelayServers(to) ==
    IF \E e \in DomainRouting : Contains(to, e[1])
    THEN {e[2] : e \in {d \in DomainRouting : Contains(to, d[1])}}
    ELSE {DefaultRelay}

(***************************************************************************)
(* One Session: handleConnection on an accepted connection.                *)
(***************************************************************************)
\* the lines a client sends
Lines ==
    {"helo relay.test", "MAIL FROM:<a@example.org>", "RCPT TO:<b@example.org>",
     "RCPT TO:<c@spamdomain.com>", "RCPT TO:<d@example.org.example.net>", "DATA",
     "QUIT", "STARTTLS", "NOOP", ""}

\* the remote addresses of the connections
Remotes == {"192.0.2.7:40000", "10.0.0.1:40000", "@"}

\* the dot-terminated bodies a client sends
Bodies == {"Subject: hi"}

Greeting == "220 Welcome to the SMTP Relay Server"

HInit ==
    /\ sPc = "idle"
    /\ sEnc = ""
    /\ sRemote = ""
    /\ sTLS = FALSE
    /\ sOut = <<>>
    /\ sFrom = ""
    /\ sTo = ""
    /\ sReads = 0
    /\ relays = <<>>
    /\ conLog = <<>>

\* a response line written to the connection, in the clear or over TLS
Say(out, text, tls) == Append(out, [text |-> text, tls |-> tls])

\* handleConnection without the source-address check
ConnectNoIPCheck(enc, remote, hs) ==
    /\ sPc = "idle"
    /\ sEnc' = enc
    /\ sRemote' = remote
    /\ IF ~SplitOk(remote)
       THEN /\ hs
            /\ sOut' = Say(sOut, "421 Service not available", FALSE)
            /\ sPc' = "closed"
            /\ sTLS' = FALSE
       ELSE IF enc = "starttls"
       THEN /\ hs
            /\ sOut' = Say(sOut, Greeting, FALSE)
            /\ sPc' = "gate"
            /\ sTLS' = FALSE
       ELSE IF enc = "tls"
       THEN /\ sTLS' = TRUE
            /\ IF hs
               THEN sOut' = Say(sOut, Greeting, TRUE) /\ sPc' = "loop"
               ELSE sOut' = sOut /\ sPc' = "closed"
       ELSE /\ hs
            /\ sOut' = Say(sOut, Greeting, FALSE)
            /\ sPc' = "loop"
            /\ sTLS' = FALSE
    /\ conLog' = IF SplitOk(remote)
                 THEN Append(conLog, [host |-> SplitHost(remote), t |-> now])
                 ELSE conLog
    /\ UNCHANGED <<sFrom, sTo, sReads, relays>>
    /\ UNCHANGED <<qvars, svars, lvars, pvars, snap>>

\* handleConnection up to its first read. hs: the TLS handshake that the first
\* write on a tls.Server connection performs succeeds
Connect(enc, remote, hs) ==
    /\ sPc = "idle"
    /\ sEnc' = enc
    /\ sRemote' = remote
    /\ IF ~SplitOk(remote)
       THEN /\ hs
            /\ sOut' = Say(sOut, "421 Service not available", FALSE)
            /\ sPc' = "closed"
            /\ sTLS' = FALSE
       ELSE IF isBlocked(SplitHost(remote))
       THEN /\ hs
            /\ sOut' = Say(sOut, "550 Connection blocked", FALSE)
            /\ sPc' = "closed"
            /\ sTLS' = FALSE
       ELSE IF enc = "starttls"
       THEN /\ hs
            /\ sOut' = Say(sOut, Greeting, FALSE)
            /\ sPc' = "gate"
            /\ sTLS' = FALSE
       ELSE IF enc = "tls"
       THEN /\ sTLS' = TRUE
            /\ IF hs
               THEN sOut' = Say(sOut, Greeting, TRUE) /\ sPc' = "loop"
               ELSE sOut' = sOut /\ sPc' = "closed"
       ELSE /\ hs
            /\ sOut' = Say(sOut, Greeting, FALSE)
            /\ sPc' = "loop"
            /\ sTLS' = FALSE
    /\ conLog' = IF SplitOk(remote) /\ ~isBlocked(SplitHost(remote))
                 THEN Append(conLog, [host |-> SplitHost(remote), t |-> now])
                 ELSE conLog
    /\ UNCHANGED <<sFrom, sTo, sReads, relays>>
    /\ UNCHANGED <<qvars, svars, lvars, pvars, snap>>

\* a gate that returns after rejecting a command
GateLineCloses(line, hs) ==
    /\ sPc = "gate"
    /\ sReads < MaxLines
    /\ sReads' = sReads + 1
    /\ IF ToUpper(line) = "STARTTLS"
       THEN /\ sTLS' = TRUE
            /\ IF hs
               THEN /\ sOut' = Say(Say(sOut, "220 Ready to start TLS", FALSE), Greeting, TRUE)
                    /\ sPc' = "loop"
               ELSE /\ sOut' = Say(sOut, "220 Ready to start TLS", FALSE)
                    /\ sPc' = "closed"
       ELSE /\ hs
            /\ sTLS' = sTLS
            /\ IF ~HasFields(line)
               THEN sOut' = sOut /\ sPc' = "panic"
               ELSE IF ToUpper(FirstField(line)) \in {"HELO", "EHLO"}
               THEN sOut' = Say(sOut, "250 Hello", FALSE) /\ sPc' = "gate"
               ELSE IF ToUpper(FirstField(line)) = "QUIT"
               THEN sOut' = Say(sOut, "221 Bye", FALSE) /\ sPc' = "closed"
               ELSE sOut' = Say(sOut, "500 Must issue STARTTLS first", FALSE) /\ sPc' = "closed"
    /\ UNCHANGED <<sEnc, sRemote, sFrom, sTo, relays>>
    /\ UNCHANGED <<qvars, svars, lvars, conLog, pvars, snap>>

\* the STARTTLS gate of a starttls listener reads one line
GateLine(line, hs) ==
    /\ sPc = "gate"
    /\ sReads < MaxLines
    /\ sReads' = sReads + 1
    /\ IF ToUpper(line) = "STARTTLS"
       THEN /\ sTLS' = TRUE
            /\ IF hs
               THEN /\ sOut' = Say(Say(sOut, "220 Ready to start TLS", FALSE), Greeting, TRUE)
                    /\ sPc' = "loop"
               ELSE /\ sOut' = Say(sOut, "220 Ready to start TLS", FALSE)
                    /\ sPc' = "closed"
       ELSE /\ hs
            /\ sTLS' = sTLS
            /\ IF ~HasFields(line)
               THEN sOut' = sOut /\ sPc' = "panic"
               ELSE IF ToUpper(FirstField(line)) \in {"HELO", "EHLO"}
               THEN sOut' = Say(sOut, "250 Hello", FALSE) /\ sPc' = "gate"
               ELSE IF ToUpper(FirstField(line)) = "QUIT"
               THEN sOut' = Say(sOut, "221 Bye", FALSE) /\ sPc' = "closed"
               ELSE sOut' = Say(sOut, "500 Must issue STARTTLS first", FALSE) /\ sPc' = "gate"
    /\ UNCHANGED <<sEnc, sRemote, sFrom, sTo, relays>>
    /\ UNCHANGED <<qvars, svars, lvars, conLog, pvars, snap>>

\* a command loop that returns after rejecting a recipient
LoopLineRcptReturns(line) ==
    /\ sPc = "loop"
    /\ sReads < MaxLines
    /\ sReads' = sReads + 1
    /\ IF ~HasFields(line)
       THEN sPc' = "panic" /\ UNCHANGED <<sOut, sFrom, sTo>>
       ELSE LET cmd == ToUpper(FirstField(line)) IN
            IF cmd \in {"HELO", "EHLO"}
            THEN /\ sOut' = Say(sOut, "250 Hello", sTLS)
                 /\ sPc' = "loop"
                 /\ UNCHANGED <<sFrom, sTo>>
            ELSE IF cmd = "MAIL"
            THEN /\ sFrom' = TrimSuffix(TrimPrefix(line, "MAIL FROM:<"), ">")
                 /\ sOut' = Say(sOut, "250 OK", sTLS)
                 /\ sPc' = "loop"
                 /\ UNCHANGED sTo
            ELSE IF cmd = "RCPT"
            THEN /\ sTo' = TrimSuffix(TrimPrefix(line, "RCPT TO:<"), ">")
                 /\ IF isBlocked(sTo')
                    THEN sOut' = Say(sOut, "550 Recipient blocked", sTLS) /\ sPc' = "closed"
                    ELSE sOut' = Say(sOut, "250 OK", sTLS) /\ sPc' = "loop"
                 /\ UNCHANGED sFrom
            ELSE IF cmd = "DATA"
            THEN /\ sOut' = Say(sOut, "354 Start mail input; end with <CRLF>.<CRLF>", sTLS)
                 /\ sPc' = "body"
                 /\ UNCHANGED <<sFrom, sTo>>
            ELSE IF cmd = "QUIT"
            THEN /\ sOut' = Say(sOut, "221 Bye", sTLS)
                 /\ sPc' = "closed"
                 /\ UNCHANGED <<sFrom, sTo>>
            ELSE /\ sOut' = Say(sOut, "500 Unrecognized command", sTLS)
                 /\ sPc' = "loop"
                 /\ UNCHANGED <<sFrom, sTo>>
    /\ UNCHANGED <<sEnc, sRemote, sTLS, relays>>
    /\ UNCHANGED <<qvars, svars, lvars, conLog, pvars, snap>>

\* the command loop reads one line
LoopLine(line) ==
    /\ sPc = "loop"
    /\ sReads < MaxLines
    /\ sReads' = sReads + 1
    /\ IF ~HasFields(line)
       THEN sPc' = "panic" /\ UNCHANGED <<sOut, sFrom, sTo>>
       ELSE LET cmd == ToUpper(FirstField(line)) IN
            IF cmd \in {"HELO", "EHLO"}
            THEN /\ sOut' = Say(sOut, "250 Hello", sTLS)
                 /\ sPc' = "loop"
                 /\ UNCHANGED <<sFrom, sTo>>
            ELSE IF cmd = "MAIL"
            THEN /\ sFrom' = TrimSuffix(TrimPrefix(line, "MAIL FROM:<"), ">")
                 /\ sOut' = Say(sOut, "250 OK", sTLS)
                 /\ sPc' = "loop"
                 /\ UNCHANGED sTo
            ELSE IF cmd = "RCPT"
            THEN /\ sTo' = TrimSuffix(TrimPrefix(line, "RCPT TO:<"), ">")
                 /\ IF isBlocked(sTo')
                    THEN sOut' = Say(sOut, "550 Recipient blocked", sTLS)
                    ELSE sOut' = Say(sOut, "250 OK", sTLS)
                 /\ sPc' = "loop"
                 /\ UNCHANGED sFrom
            ELSE IF cmd = "DATA"
            THEN /\ sOut' = Say(sOut, "354 Start mail input; end with <CRLF>.<CRLF>", sTLS)
                 /\ sPc' = "body"
                 /\ UNCHANGED <<sFrom, sTo>>
            ELSE IF cmd = "QUIT"
            THEN /\ sOut' = Say(sOut, "221 Bye", sTLS)
                 /\ sPc' = "closed"
                 /\ UNCHANGED <<sFrom, sTo>>
            ELSE /\ sOut' = Say(sOut, "500 Unrecognized command", sTLS)
                 /\ sPc' = "loop"
                 /\ UNCHANGED <<sFrom, sTo>>
    /\ UNCHANGED <<sEnc, sRemote, sTLS, relays>>
    /\ UNCHANGED <<qvars, svars, lvars, conLog, pvars, snap>>

\* a RelayEmail that ignores the routing table
BodyReadDefaultRelay(data) ==
    /\ sPc = "body"
    /\ relays' = Append(relays, [from |-> sFrom, to |-> sTo, data |-> data,
                                 server |-> DefaultRelay, result |-> "pending",
                                 acked |-> FALSE])
    /\ sPc' = "relay"
    /\ UNCHANGED <<sEnc, sRemote, sTLS, sOut, sFrom, sTo, sReads>>
    /\ UNCHANGED <<qvars, svars, lvars, conLog, pvars, snap>>

\* ReadDotBytes returns the body: RelayEmail picks a server and starts smtp.SendMail
BodyRead(data) ==
    /\ sPc = "body"
    /\ \E srv \in RelayServers(sTo) :
          relays' = Append(relays, [from |-> sFrom, to |-> sTo, data |-> data,
                                    server |-> srv, result |-> "pending",
                                    acked |-> FALSE])
    /\ sPc' = "relay"
    /\ UNCHANGED <<sEnc, sRemote, sTLS, sOut, sFrom, sTo, sReads>>
    /\ UNCHANGED <<qvars, svars, lvars, conLog, pvars, snap>>

\* a DATA case that reports the delivery failure to the client
RelayDoneReportsFailure(ok) ==
    /\ sPc = "relay"
    /\ relays' = [relays EXCEPT ![Len(relays)].result = IF ok THEN "sent" ELSE "failed",
                                ![Len(relays)].acked = TRUE]
    /\ sOut' = Say(sOut, IF ok THEN "250 OK" ELSE "451 Delivery failed", sTLS)
    /\ sPc' = "loop"
    /\ UNCHANGED <<sEnc, sRemote, sTLS, sFrom, sTo, sReads>>
    /\ UNCHANGED <<qvars, svars, lvars, conLog, pvars, snap>>

\* a DATA case that resets the envelope once the message is handed over
RelayDoneClearsEnvelope(ok) ==
    /\ sPc = "relay"
    /\ relays' = [relays EXCEPT ![Len(relays)].result = IF ok THEN "sent" ELSE "failed",
                                ![Len(relays)].acked = TRUE]
    /\ sOut' = Say(sOut, "250 OK", sTLS)
    /\ sPc' = "loop"
    /\ sFrom' = ""
    /\ sTo' = ""
    /\ UNCHANGED <<sEnc, sRemote, sTLS, sReads>>
    /\ UNCHANGED <<qvars, svars, lvars, conLog, pvars, snap>>

\* smtp.SendMail returns, with or without an error; the DATA case then answers
RelayDone(ok) ==
    /\ sPc = "relay"
    /\ relays' = [relays EXCEPT ![Len(relays)].result = IF ok THEN "sent" ELSE "failed",
                                ![Len(relays)].acked = TRUE]
    /\ sOut' = Say(sOut, "250 OK", sTLS)
    /\ sPc' = "loop"
    /\ UNCHANGED <<sEnc, sRemote, sTLS, sFrom, sTo, sReads>>
    /\ UNCHANGED <<qvars, svars, lvars, conLog, pvars, snap>>

\* a Session that answers a read error before it returns
ReadErrorAnswers ==
    /\ sPc \in {"gate", "loop", "body"}
    /\ sPc' = "closed"
    /\ sOut' = Say(sOut, "421 Service not available", sTLS)
    /\ UNCHANGED <<sEnc, sRemote, sTLS, sFrom, sTo, sReads, relays>>
    /\ UNCHANGED <<qvars, svars, lvars, conLog, pvars, snap>>

\* ReadLine or ReadDotBytes returns an error: the Session returns
ReadError ==
    /\ sPc \in {"gate", "loop", "body"}
    /\ sPc' = "closed"
    /\ UNCHANGED <<sEnc, sRemote, sTLS, sOut, sFrom, sTo, sReads, relays>>
    /\ UNCHANGED <<qvars, svars, lvars, conLog, pvars, snap>>

HNext ==
    \/ \E enc \in {"none", "starttls", "tls"}, remote \in Remotes, hs \in BOOLEAN :
          Connect(enc, remote, hs)
    \/ \E line \in Lines, hs \in BOOLEAN : GateLine(line, hs)
    \/ \E line \in Lines : LoopLine(line)
    \/ \E data \in Bodies : BodyRead(data)
    \/ \E ok \in BOOLEAN : RelayDone(ok)
    \/ ReadError

(***************************************************************************)
(* Sessions one after another on one listener.                             *)
(***************************************************************************)
\* acceptConnections hands the next accepted connection to a new
\* handleConnection, after the Session before it has returned
NextConn ==
    /\ sPc = "closed"
    /\ Len(conLog) <= RequestsPerMinute
    /\ sPc' = "idle"
    /\ sEnc' = ""
    /\ sRemote' = ""
    /\ sTLS' = FALSE
    /\ sOut' = <<>>
    /\ sFrom' = ""
    /\ sTo' = ""
    /\ sReads' = 0
    /\ UNCHANGED <<relays, conLog>>
    /\ UNCHANGED <<qvars, svars, lvars, pvars, snap>>

AdmitNext ==
    \/ Tick
    \/ \E enc \in {"none", "starttls", "tls"}, remote \in Remotes, hs \in BOOLEAN :
          Connect(enc, remote, hs)
    \/ ReadError
    \/ NextConn

(***************************************************************************)
(* RateLimiter.                                                            *)
(***************************************************************************)
\* the source addresses allow is called with
RlIPs == {"192.0.2.7", "198.51.100.9", "127.0.0.1"}

\* the zero time.Time a map read returns for an address never seen: it lies
\* more than a minute before every time.Now()
ZeroTime == 0 - (Minute + 1)

LInit ==
    /\ requests = [ip \in RlIPs |-> 0]
    /\ lastTime = [ip \in RlIPs |-> ZeroTime]
    /\ grants = [ip \in RlIPs |-> 0]
    /\ calls = [ip \in RlIPs |-> ""]
    /\ rlRet = [ip |-> "", ok |-> FALSE, reset |-> FALSE, prev |-> ""]

\* config.ExemptIPs holds the address
Exempt(ip) == \E i \in 1..Len(ExemptIPs) : ip = ExemptIPs[i]

\* allow that denies only above the limit (> for >=)
allowOffByOne(ip) ==
    /\ IF Exempt(ip)
       THEN /\ rlRet' = [ip |-> ip, ok |-> TRUE, reset |-> FALSE, prev |-> calls[ip]]
            /\ calls' = [calls EXCEPT ![ip] = "allowed"]
            /\ UNCHANGED <<requests, lastTime, grants>>
       ELSE LET reset == now - lastTime[ip] > Minute
                count == IF reset THEN 0 ELSE requests[ip]
                ok    == ~(count > RequestsPerMinute)
            IN /\ lastTime' = [lastTime EXCEPT ![ip] = IF reset THEN now ELSE @]
               /\ requests' = [requests EXCEPT ![ip] = IF ok THEN count + 1 ELSE count]
               /\ grants' = [grants EXCEPT ![ip] = (IF reset THEN 0 ELSE @) + (IF ok THEN 1 ELSE 0)]
               /\ calls' = [calls EXCEPT ![ip] = IF ok THEN "allowed" ELSE "denied"]
               /\ rlRet' = [ip |-> ip, ok |-> ok, reset |-> reset, prev |-> calls[ip]]
    /\ UNCHANGED <<qvars, svars, hvars, conLog, pvars, snap>>

\* allow that moves the timestamp of an expired window and keeps its count
allowKeepsCount(ip) ==
    /\ IF Exempt(ip)
       THEN /\ rlRet' = [ip |-> ip, ok |-> TRUE, reset |-> FALSE, prev |-> calls[ip]]
            /\ calls' = [calls EXCEPT ![ip] = "allowed"]
            /\ UNCHANGED <<requests, lastTime, grants>>
       ELSE LET reset == now - lastTime[ip] > Minute
                count == requests[ip]
                ok    == ~(count >= RequestsPerMinute)
            IN /\ lastTime' = [lastTime EXCEPT ![ip] = IF reset THEN now ELSE @]
               /\ requests' = [requests EXCEPT ![ip] = IF ok THEN count + 1 ELSE count]
               /\ grants' = [grants EXCEPT ![ip] = (IF reset THEN 0 ELSE @) + (IF ok THEN 1 ELSE 0)]
               /\ calls' = [calls EXCEPT ![ip] = IF ok THEN "allowed" ELSE "denied"]
               /\ rlRet' = [ip |-> ip, ok |-> ok, reset |-> reset, prev |-> calls[ip]]
    /\ UNCHANGED <<qvars, svars, hvars, conLog, pvars, snap>>

\* rateLimiter.allow, from Lock to Unlock
allow(ip) ==
    /\ IF Exempt(ip)
       THEN /\ rlRet' = [ip |-> ip, ok |-> TRUE, reset |-> FALSE, prev |-> calls[ip]]
            /\ calls' = [calls EXCEPT ![ip] = "allowed"]
            /\ UNCHANGED <<requests, lastTime, grants>>
       ELSE LET reset == now - lastTime[ip] > Minute
                count == IF reset THEN 0 ELSE requests[ip]
                ok    == ~(count >= RequestsPerMinute)
            IN /\ lastTime' = [lastTime EXCEPT ![ip] = IF reset THEN now ELSE @]
               /\ requests' = [requests EXCEPT ![ip] = IF ok THEN count + 1 ELSE count]
               /\ grants' = [grants EXCEPT ![ip] = (IF reset THEN 0 ELSE @) + (IF ok THEN 1 ELSE 0)]
               /\ calls' = [calls EXCEPT ![ip] = IF ok THEN "allowed" ELSE "denied"]
               /\ rlRet' = [ip |-> ip, ok |-> ok, reset |-> reset, prev |-> calls[ip]]
    /\ UNCHANGED <<qvars, svars, hvars, conLog, pvars, snap>>

RNext ==
    \/ Tick
    \/ \E ip \in RlIPs : allow(ip)

Init == QInit /\ SInit /\ HInit /\ LInit /\ PInit

\* the queue API alone
Spec == Init /\ [][QNext]_vars

\* the queue with its persist worker and process restarts
SpecDur == Init /\ [][DurNext]_vars

\* the server lifecycle
SpecSrv == Init /\ [][SNext]_vars

\* one Session on an accepted connection
SpecSess == Init /\ [][HNext]_vars

\* the rate limiter called for the connections of several sources
SpecRate == Init /\ [][RNext]_vars

\* isBlocked called with the targets and block lists
SpecBlock == Init /\ [][PNext]_vars

\* one listener serving one connection after another
SpecAdmit == Init /\ [][AdmitNext]_vars

\* the server lifecycle with its methods called concurrently
SpecSrvCon == Init /\ [][ConNext]_vars

\* the queue under a delivery worker, with the clock, the worker's polling and
\* each delivery attempt making progress
SpecWorker ==
    /\ Init
    /\ [][WNext]_vars
    /\ WF_vars(WTick)
    /\ WF_vars(WDequeue)
    /\ WF_vars(WDeliver)

\* the server lifecycle with every goroutine that can run scheduled eventually
SpecSrvFair ==
    /\ Init
    /\ [][SNext]_vars
    /\ \A l \in 1..MaxLn : WF_vars(LoopStep(l))
    /\ WF_vars(CtlStep)

(***************************************************************************)
(* Where an admitted item is.                                              *)
(***************************************************************************)
PendingUids == {items[i].uid : i \in 1..Len(items)}

FailedUids == {failedItems[i].Item.uid : i \in 1..Len(failedItems)}

HeldUids == {h.uid : h \in held}

Admitted == 1..(nextUid - 1)

NoDuplicates ==
    /\ \A i, j \in 1..Len(items) : items[i].uid = items[j].uid => i = j
    /\ \A i, j \in 1..Len(failedItems) :
          failedItems[i].Item.uid = failedItems[j].Item.uid => i = j

C2_Bounded == Len(items) <= MaxQueueSize

(***************************************************************************)
(* C3. Enqueue fails with "queue is full" and changes nothing when the     *)
(* pending count has reached max_queue_size; otherwise it appends one new  *)
(* item with attempts = 0 and nextRetry = now at the tail and succeeds.    *)
(***************************************************************************)
C3_Enqueue ==
    [][\A d \in Payloads : Enqueue(d) =>
         IF Len(items) >= MaxQueueSize
         THEN /\ last'.err = "queue is full"
              /\ items' = items
              /\ failedItems' = failedItems
         ELSE /\ last'.err = ""
              /\ Len(items') = Len(items) + 1
              /\ SubSeq(items', 1, Len(items)) = items
              /\ items'[Len(items')].Attempts = 0
              /\ items'[Len(items')].NextRetry = now
              /\ items'[Len(items')].Data = d
              /\ items'[Len(items')].uid \notin PendingUids \cup FailedUids \cup HeldUids
              /\ failedItems' = failedItems]_vars

\* max_queue_size admissions succeeded and the next Enqueue was refused
C3_Witness ==
    /\ last.op = "Enqueue"
    /\ last.err = "queue is full"
    /\ Len(items) = MaxQueueSize
    /\ nextUid = MaxQueueSize + 1

C5_AttemptsBounded ==
    /\ [](\A i \in 1..Len(items) : items[i].Attempts <= MaxRetries)
    /\ [][\A it \in held : Retry(it) =>
            ((it.Attempts >= MaxRetries) <=>
                /\ Len(failedItems') = Len(failedItems) + 1
                /\ failedItems'[Len(failedItems')].Item = it)]_vars
    /\ [][Len(failedItems') > Len(failedItems) =>
            /\ last'.op = "Retry"
            /\ last'.err = "max retries exceeded"
            /\ \E it \in held : it.uid = last'.uid /\ it.Attempts >= MaxRetries]_vars

\* a retried item is pending with attempts = maxRetries and another one failed
C5_Witness ==
    /\ \E i \in 1..Len(items) : items[i].Attempts = MaxRetries
    /\ Len(failedItems) >= 1

(***************************************************************************)
(* C6. An item that a persistence cycle wrote to disk and that has been    *)
(* neither delivered nor cleared is in the pending collection or the       *)
(* failed ledger of the queue that NewQueue rebuilds after a crash.        *)
(***************************************************************************)
C6_Durable ==
    last.op = "NewQueue" => persisted \subseteq (PendingUids \cup FailedUids)

(***************************************************************************)
(* C7. After a run of persistToDisk, what NewQueue loads from the storage  *)
(* directory is the pending collection (ids, payloads, attempts, order)    *)
(* and the failed ledger that were persisted.                              *)
(***************************************************************************)
C7_RoundTrip ==
    /\ [][PersistFailed =>
            /\ DecodeItems(itemsFile') = items'
            /\ DecodeFailed(failedFile') = failedItems']_vars
    /\ [][(/\ NewQueue
           /\ persistPc = "idle"
           /\ itemsFile = EncodeItems(items)
           /\ failedFile = EncodeFailed(failedItems)) =>
            /\ items' = items
            /\ failedItems' = failedItems]_vars

\* a queue rebuilt from files that hold a retried pending item and a failed one
C7_Witness ==
    /\ last.op = "NewQueue"
    /\ itemsFile = EncodeItems(items)
    /\ failedFile = EncodeFailed(failedItems)
    /\ \E i \in 1..Len(items) : items[i].Attempts >= 1
    /\ Len(failedItems) >= 1

(***************************************************************************)
(* C8. RequeueFailedItem(id) moves a failed item with that id to the tail  *)
(* of pending with attempts = 0 and nextRetry = now and leaves every other *)
(* entry alone; without such an item it fails and changes nothing.         *)
(***************************************************************************)
C8_Requeue ==
    [][\A id \in 0..MaxTime : RequeueFailedItem(id) =>
         IF \E i \in 1..Len(failedItems) : failedItems[i].Item.ID = id
         THEN /\ last'.err = ""
              /\ \E i \in 1..Len(failedItems) :
                    /\ failedItems[i].Item.ID = id
                    /\ failedItems' = RemoveAt(failedItems, i)
                    /\ Len(items') = Len(items) + 1
                    /\ SubSeq(items', 1, Len(items)) = items
                    /\ items'[Len(items')] =
                          [failedItems[i].Item EXCEPT !.Attempts = 0, !.NextRetry = now]
         ELSE /\ last'.err = "not found"
              /\ items' = items
              /\ failedItems' = failedItems]_vars

\* an exhausted item is back in pending behind another item, attempts reset
C8_Witness ==
    /\ last.op = "RequeueFailedItem"
    /\ last.err = ""
    /\ Len(items) >= 2
    /\ items[Len(items)].uid = last.uid
    /\ items[Len(items)].Attempts = 0
    /\ items[Len(items)].NextRetry = now
    /\ Len(retryLog[last.uid]) = MaxRetries + 1

(***************************************************************************)
(* C9. When Stop() has returned, every Session spawned by the accept loops *)
(* started before it has finished, and those loops spawn no Session        *)
(* afterwards.                                                             *)
(***************************************************************************)
C9_Barrier == \A l \in stoppedLns : sess[l] = 0

(***************************************************************************)
(* C10. After Stop() has returned (also the Stop inside Restart), every    *)
(* accept loop started before it eventually exits.                         *)
(***************************************************************************)
C10_LoopsExit ==
    \A l \in 1..MaxLn : [](l \in stoppedLns => <>(loopPc[l] = "done" \/ panicked))

(***************************************************************************)
(* A method has returned to its caller with this result.                   *)
(***************************************************************************)
Returned(t, op, res) ==
    ctl[t].pc = "idle" /\ ctl[t].op = op /\ ctl[t].res = res

(***************************************************************************)
(* C11. When Start() returns the error of a listener that failed to open,  *)
(* every listener it opened earlier is closed, the listener set is empty,  *)
(* Status() reports stopped, and none of the accept loops it started keeps *)
(* running: each of them exits.                                            *)
(***************************************************************************)
C11_Rollback ==
    /\ [](\A t \in Threads :
            (\E op \in {"Start", "Restart"} : Returned(t, op, "failed to start listener")) =>
                /\ listeners = <<>>
                /\ ~running
                /\ rolledBack \cap lnOpen = {})
    /\ \A l \in 1..MaxLn : [](l \in rolledBack => <>(loopPc[l] = "done" \/ panicked))

(***************************************************************************)
(* C12. When Start() returns the error of a key pair that failed to load,  *)
(* no listener is open and the Server is not left running: Status()        *)
(* reports stopped, so a later Start() is not rejected.                    *)
(***************************************************************************)
C12_TLSFailure ==
    \A t \in Threads :
        (\E op \in {"Start", "Restart"} : Returned(t, op, "failed to load TLS certificate")) =>
            /\ ~running
            /\ Range(listeners) \cap lnOpen = {}

\* a Start() call that is past the running check and has opened a listener
Opening(t) == ctl[t].op = "Start" /\ ctl[t].pc # "idle" /\ ctl[t].mine # {}

(***************************************************************************)
(* C13. Start() on a running Server returns "server is already running"    *)
(* and changes nothing; of two concurrent Start() calls, at most one       *)
(* passes the running check and opens listeners.                           *)
(***************************************************************************)
C13_StartOnce ==
    /\ [][\A t \in Threads : (StartLock(t) /\ running) =>
            /\ ctl'[t].pc = "idle"
            /\ ctl'[t].res = "server is already running"
            /\ UNCHANGED <<running, quit, closedCh, listeners, lnOpen, nextLn, wg,
                           loopPc, sess>>]_vars
    /\ [](\A t, u \in Threads : (Opening(t) /\ Opening(u)) => t = u)

(***************************************************************************)
(* C14. After Restart() has returned without error, Status() reports       *)
(* running, every configured listener is open, the cancellation signal is  *)
(* a fresh one that has not been raised, and each new accept loop goes on  *)
(* accepting.                                                              *)
(***************************************************************************)
C14_Restart ==
    \A t \in Threads :
        Returned(t, "Restart", "ok") =>
            /\ running
            /\ Len(listeners) = NumListeners
            /\ Range(listeners) \subseteq lnOpen
            /\ quit \notin closedCh
            /\ \A l \in Range(listeners) : loopPc[l] \in {"select", "accept", "spawn"}

\* Restart() returned on a server that was running, and a new loop has a Session
C14_Witness ==
    /\ \E t \in Threads : Returned(t, "Restart", "ok")
    /\ closedCh # {}
    /\ stoppedLns # {}
    /\ \E l \in Range(listeners) : sess[l] > 0

\* the recipient the RCPT case takes from a line
Recipient(line) == TrimSuffix(TrimPrefix(line, "RCPT TO:<"), ">")

\* the command word of a line that has one
Command(line) == ToUpper(FirstField(line))

LastOut == sOut[Len(sOut)].text

(***************************************************************************)
(* C15. In the command loop an RCPT whose recipient the policy blocks is   *)
(* answered "550 Recipient blocked" and the session stays in the command   *)
(* loop; an RCPT with a recipient that is not blocked is answered "250 OK",*)
(* also after a rejected one.                                              *)
(***************************************************************************)
C15_RcptBlocked ==
    [][\A line \in Lines :
         (LoopLine(line) /\ HasFields(line) /\ Command(line) = "RCPT") =>
            /\ sPc' = "loop"
            /\ Len(sOut') = Len(sOut) + 1
            /\ sOut'[Len(sOut')].text =
                  IF isBlocked(Recipient(line)) THEN "550 Recipient blocked" ELSE "250 OK"]_vars

\* a rejected RCPT was followed by an accepted one in the same session
C15_Witness ==
    /\ sPc = "loop"
    /\ Len(sOut) >= 3
    /\ sOut[Len(sOut) - 1].text = "550 Recipient blocked"
    /\ LastOut = "250 OK"
    /\ sTo = "b@example.org"

(***************************************************************************)
(* C16. On a starttls listener, before STARTTLS, a command other than      *)
(* HELO/EHLO, QUIT and STARTTLS is answered "500 Must issue STARTTLS       *)
(* first", sets no envelope field, relays nothing and leaves the session   *)
(* in the gate; envelope fields are set and messages relayed only after    *)
(* the TLS upgrade.                                                        *)
(***************************************************************************)
C16_Gate ==
    /\ [][\A line \in Lines, hs \in BOOLEAN :
            (/\ GateLine(line, hs)
             /\ HasFields(line)
             /\ Command(line) \notin {"HELO", "EHLO", "QUIT", "STARTTLS"}) =>
                /\ sOut' = Say(sOut, "500 Must issue STARTTLS first", FALSE)
                /\ sPc' = "gate"
                /\ UNCHANGED <<sFrom, sTo, relays, sTLS>>]_vars
    /\ []((sEnc = "starttls" /\ (sFrom # "" \/ sTo # "" \/ relays # <<>>)) => sTLS)

\* HELO, then DATA rejected in the gate, then STARTTLS and an accepted MAIL
C16_Witness ==
    /\ sEnc = "starttls"
    /\ Len(sOut) >= 3
    /\ sOut[2].text = "250 Hello"
    /\ sOut[3].text = "500 Must issue STARTTLS first"
    /\ sTLS
    /\ sFrom = "a@example.org"

(***************************************************************************)
(* C17. In a session on a tls listener no response line (greeting or       *)
(* status line) is written to the unencrypted connection.                  *)
(***************************************************************************)
C17_TLSFirst ==
    sEnc = "tls" => \A i \in 1..Len(sOut) : sOut[i].tls

(***************************************************************************)
(* C18. A session whose remote address does not parse is sent exactly      *)
(* "421 Service not available", one whose source address the policy blocks *)
(* exactly "550 Connection blocked"; both end at once with no greeting, no *)
(* command read and nothing relayed, on every listener type.               *)
(***************************************************************************)
C18_ConnectReject ==
    /\ [][\A enc \in {"none", "starttls", "tls"}, remote \in Remotes, hs \in BOOLEAN :
            Connect(enc, remote, hs) =>
                /\ ~SplitOk(remote) =>
                      /\ Len(sOut') = 1
                      /\ sOut'[1].text = "421 Service not available"
                      /\ sPc' = "closed"
                /\ (SplitOk(remote) /\ isBlocked(SplitHost(remote))) =>
                      /\ Len(sOut') = 1
                      /\ sOut'[1].text = "550 Connection blocked"
                      /\ sPc' = "closed"]_vars
    /\ []((sPc # "idle" /\ (~SplitOk(sRemote) \/ isBlocked(SplitHost(sRemote)))) =>
            /\ sPc = "closed"
            /\ Len(sOut) = 1
            /\ sReads = 0
            /\ relays = <<>>)

\* a blocked source address was turned away on a starttls listener
C18_Witness ==
    /\ sPc = "closed"
    /\ sEnc = "starttls"
    /\ sRemote = "10.0.0.1:40000"
    /\ Len(sOut) = 1
    /\ LastOut = "550 Connection blocked"

(***************************************************************************)
(* C19. Every DATA whose body was read is answered "250 OK", whether the   *)
(* delivery attempt succeeded or failed, and the session is in the command *)
(* loop afterwards.                                                        *)
(***************************************************************************)
C19_AlwaysAck ==
    /\ [][\A ok \in BOOLEAN : RelayDone(ok) =>
            /\ sOut' = Say(sOut, "250 OK", sTLS)
            /\ sPc' = "loop"]_vars
    /\ [](\A i \in 1..Len(relays) :
            \/ relays[i].acked /\ relays[i].result \in {"sent", "failed"}
            \/ i = Len(relays) /\ sPc = "relay")

\* a delivery attempt failed and its DATA was answered "250 OK"
C19_Witness ==
    /\ sPc = "loop"
    /\ Len(relays) >= 1
    /\ relays[Len(relays)].result = "failed"
    /\ relays[Len(relays)].acked
    /\ LastOut = "250 OK"

(***************************************************************************)
(* C20. For every DATA command the "250 OK" response has already been sent *)
(* when the delivery attempt for its message is made.                      *)
(***************************************************************************)
C20_AckBeforeRelay ==
    \A i \in 1..Len(relays) : relays[i].acked

\* a line of the command loop that is none of its commands
LoopUnrecognized(line) ==
    ~HasFields(line) \/ Command(line) \notin {"HELO", "EHLO", "MAIL", "RCPT", "DATA", "QUIT"}

\* a line of the STARTTLS gate that is none of its commands
GateUnrecognized(line) ==
    /\ ToUpper(line) # "STARTTLS"
    /\ ~HasFields(line) \/ Command(line) \notin {"HELO", "EHLO", "QUIT"}

(***************************************************************************)
(* C21. Every line read in the command loop or in the STARTTLS gate that   *)
(* is not one of its commands, an empty line included, is answered with a  *)
(* 500 response and leaves the session where it was, with its envelope     *)
(* unchanged; it never ends the session or the process.                    *)
(***************************************************************************)
C21_Unrecognized ==
    /\ [][\A line \in Lines :
            (LoopLine(line) /\ LoopUnrecognized(line)) =>
                /\ sPc' = "loop"
                /\ Len(sOut') = Len(sOut) + 1
                /\ HasPrefix(sOut'[Len(sOut')].text, "500")
                /\ UNCHANGED <<sFrom, sTo, sTLS, relays>>]_vars
    /\ [][\A line \in Lines :
            (GateLine(line, TRUE) /\ GateUnrecognized(line)) =>
                /\ sPc' = "gate"
                /\ Len(sOut') = Len(sOut) + 1
                /\ HasPrefix(sOut'[Len(sOut')].text, "500")
                /\ UNCHANGED <<sFrom, sTo, sTLS, relays>>]_vars
    /\ [](sPc # "panic")

(***************************************************************************)
(* C22. For an address that is not exempt the request count never exceeds  *)
(* requests_per_minute, at most that many calls of allow return true       *)
(* between two resets of its counter, and once that many calls have been   *)
(* allowed the next call inside the window is denied.                      *)
(***************************************************************************)
C22_RateBound ==
    /\ [](\A ip \in RlIPs : ~Exempt(ip) =>
            /\ requests[ip] <= RequestsPerMinute
            /\ grants[ip] <= RequestsPerMinute)
    /\ [][\A ip \in RlIPs :
            (/\ allow(ip)
             /\ ~Exempt(ip)
             /\ grants[ip] = RequestsPerMinute
             /\ now - lastTime[ip] < Minute) => ~rlRet'.ok]_vars

\* a call was denied after requests_per_minute calls were allowed in the window
C22_Witness ==
    /\ rlRet.ip \in RlIPs
    /\ ~Exempt(rlRet.ip)
    /\ ~rlRet.ok
    /\ rlRet.prev = "allowed"
    /\ grants[rlRet.ip] = RequestsPerMinute
    /\ now - lastTime[rlRet.ip] < Minute

(***************************************************************************)
(* C23 as stated: whenever 60 seconds or more, exactly 60 seconds          *)
(* included, have passed since the address's last reset, the next call of  *)
(* allow resets its count to zero, moves the timestamp to now and is       *)
(* allowed.                                                                *)
(***************************************************************************)
C23_ResetAtMinute ==
    [][\A ip \in RlIPs :
         (allow(ip) /\ ~Exempt(ip) /\ now - lastTime[ip] >= Minute) =>
            /\ rlRet'.reset
            /\ requests'[ip] = 1
            /\ lastTime'[ip] = now
            /\ rlRet'.ok]_vars

(***************************************************************************)
(* C23. For an address that is not exempt, whenever more than 60 seconds   *)
(* have passed since its last reset, the next call of allow resets its     *)
(* count to zero, moves the timestamp to now and is allowed, also when the *)
(* call before it was denied.                                              *)
(***************************************************************************)
C23_ResetAfterMinute ==
    [][\A ip \in RlIPs :
         (allow(ip) /\ ~Exempt(ip) /\ now - lastTime[ip] > Minute) =>
            /\ rlRet'.reset
            /\ requests'[ip] = 1
            /\ lastTime'[ip] = now
            /\ rlRet'.ok]_vars

\* a denied address was allowed again by a call made after its window had passed
C23_Witness ==
    /\ rlRet.ip \in RlIPs
    /\ ~Exempt(rlRet.ip)
    /\ rlRet.prev = "denied"
    /\ rlRet.reset
    /\ rlRet.ok
    /\ lastTime[rlRet.ip] = now
    /\ requests[rlRet.ip] = 1

\* the connections of one source admitted at one instant
AdmittedAt(host, t) == {i \in 1..Len(conLog) : conLog[i] = [host |-> host, t |-> t]}

(***************************************************************************)
(* C24. A connection from a source address that is not exempt and has had  *)
(* requests_per_minute connections admitted in its current window is       *)
(* refused before any command is read: of the connections one source opens *)
(* at one instant at most requests_per_minute are admitted.                *)
(***************************************************************************)
C24_Admission ==
    \A i \in 1..Len(conLog) :
        ~Exempt(conLog[i].host) =>
            Cardinality(AdmittedAt(conLog[i].host, conLog[i].t)) <= RequestsPerMinute

\* the rule with the CIDR case tried for every target
RefEntryAnyTarget(target, entry) ==
    IF ParseIP(target) # NoIP /\ ParseIP(entry) # NoIP
    THEN ParseIP(target) = ParseIP(entry)
    ELSE IF ParseCIDR(entry).ok
         THEN ParseIP(target) # NoIP /\ NetContains(ParseCIDR(entry), ParseIP(target))
         ELSE Contains(target, entry)

\* the rule with the CIDR case tried for a target that is an IP address
RefEntry(target, entry) ==
    IF ParseIP(target) # NoIP /\ ParseIP(entry) # NoIP
    THEN ParseIP(target) = ParseIP(entry)
    ELSE IF ParseIP(target) # NoIP /\ ParseCIDR(entry).ok
         THEN NetContains(ParseCIDR(entry), ParseIP(target))
         ELSE Contains(target, entry)

(***************************************************************************)
(* C25 as stated: isBlocked(target) is true iff some entry of the block    *)
(* list matches, where an entry matches (1) by address equality if target  *)
(* and entry both parse as IPs, (2) else, if the entry parses as a CIDR,   *)
(* iff the block contains the target's IP, (3) else iff the entry is a     *)
(* case-sensitive substring of the target.                                 *)
(***************************************************************************)
C25_Reference ==
    pfTarget # "" =>
        (pfRet <=> \E i \in 1..Len(pfList) : RefEntryAnyTarget(pfTarget, pfList[i]))

(***************************************************************************)
(* C25. isBlocked(target) is true iff some entry of the block list         *)
(* matches, where an entry matches (1) by address equality if target and   *)
(* entry both parse as IPs, (2) else, if target parses as an IP and the    *)
(* entry as a CIDR, iff the block contains the target's IP, (3) else iff   *)
(* the entry is a case-sensitive substring of the target; "10.0.0.5" is    *)
(* blocked by "10.0.0.0/24" and not by "10.0.1.0/24".                      *)
(***************************************************************************)
C25_ReferenceIPTarget ==
    /\ pfTarget # "" =>
          (pfRet <=> \E i \in 1..Len(pfList) : RefEntry(pfTarget, pfList[i]))
    /\ (pfTarget = "10.0.0.5" /\ pfList = <<"10.0.0.0/24">>) => pfRet
    /\ (pfTarget = "10.0.0.5" /\ pfList = <<"10.0.1.0/24">>) => ~pfRet

\* an address inside the second of two CIDR blocks was found blocked
C25_Witness ==
    /\ pfTarget = "10.0.0.5"
    /\ pfList = <<"10.0.1.0/24", "10.0.0.0/24">>
    /\ pfRet

\* the routing entries whose domain key is a substring of the recipient
Matching(to) == {e \in DomainRouting : Contains(to, e[1])}

(***************************************************************************)
(* C26. RelayEmail selects the default relay if and only if no domain key  *)
(* of the routing table is a substring of the recipient; otherwise it      *)
(* selects the server of an entry whose key is a substring of it. It makes *)
(* exactly one delivery attempt, to the selected host.                     *)
(***************************************************************************)
C26_RelaySelection ==
    /\ [][\A data \in Bodies : BodyRead(data) =>
            /\ Len(relays') = Len(relays) + 1
            /\ SubSeq(relays', 1, Len(relays)) = relays
            /\ LET r == relays'[Len(relays')] IN
                  /\ r.to = sTo /\ r.from = sFrom /\ r.data = data
                  /\ r.server = DefaultRelay <=> Matching(sTo) = {}
                  /\ Matching(sTo) # {} => \E e \in Matching(sTo) : r.server = e[2]]_vars
    /\ [][\A ok \in BOOLEAN : RelayDone(ok) =>
            /\ Len(relays') = Len(relays)
            /\ relays'[Len(relays)].server = relays[Len(relays)].server]_vars
    /\ [][Len(relays') # Len(relays) => \E data \in Bodies : BodyRead(data)]_vars

\* one session relayed a routed recipient to its entry's server and another
\* recipient, which no key matches, to the default relay
C26_Witness ==
    /\ Len(relays) = 2
    /\ relays[1].to = "b@example.org"
    /\ relays[1].server = "smtp.example.org:25"
    /\ relays[1].result # "pending"
    /\ Matching(relays[2].to) = {}
    /\ relays[2].server = DefaultRelay

(***************************************************************************)
(* C27. Relay selection is deterministic: two calls of RelayEmail with the *)
(* same recipient and the same routing table select the same relay server, *)
(* also when several routing entries match the recipient.                  *)
(***************************************************************************)
C27_Deterministic ==
    \A i, j \in 1..Len(relays) :
        relays[i].to = relays[j].to => relays[i].server = relays[j].server

(***************************************************************************)
(* C28. No message is handed to RelayEmail with a recipient the policy     *)
(* blocks: after an RCPT was answered "550 Recipient blocked", a following *)
(* DATA does not relay the message to the rejected recipient.              *)
(***************************************************************************)
C28_NoBlockedRelay ==
    \A i \in 1..Len(relays) : ~isBlocked(relays[i].to)

(***************************************************************************)
(* C29. Across any sequence of Start, Stop and Restart calls on one Server *)
(* Stop() never closes a cancellation signal that is already closed, so it *)
(* never panics; Start, Stop, Start, Stop completes normally.              *)
(***************************************************************************)
C29_StopNeverPanics ==
    /\ [][\A t \in Threads : StopQuit(t) => quit \notin closedCh]_vars
    /\ [](~panicked)

(***************************************************************************)
(* C30. Whenever a Start() call has returned without error and no Stop or  *)
(* Restart has begun since, every configured listener is open and has a    *)
(* live accept loop, also when that Start() follows an earlier Stop() or a *)
(* failed Start() on the same Server without a Restart() in between.       *)
(***************************************************************************)
C30_StartServes ==
    \A t \in Threads :
        Returned(t, "Start", "ok") =>
            /\ Len(listeners) = NumListeners
            /\ Range(listeners) \subseteq lnOpen
            /\ \A l \in Range(listeners) : loopPc[l] \in {"select", "accept", "spawn"}

\* the positions of the pending items whose nextRetry has passed
Due == {i \in 1..Len(items) : items[i].NextRetry < now}

(***************************************************************************)
(* C31. Dequeue removes and returns the first pending item, in scan order, *)
(* whose nextRetry has passed; the other pending items stay, in their      *)
(* order, and the failed ledger is unchanged. When no pending item is due  *)
(* it fails with "no items ready" and changes nothing. A later-enqueued    *)
(* item can so be returned before an earlier one that is not yet due.      *)
(***************************************************************************)
C31_DequeueFirstDue ==
    [][Dequeue =>
         IF Due = {}
         THEN /\ last' = Call("Dequeue", "no items ready for processing", 0)
              /\ UNCHANGED <<items, failedItems, held>>
         ELSE \E i \in Due :
                 /\ \A j \in Due : i <= j
                 /\ held' = held \cup {items[i]}
                 /\ last' = Call("Dequeue", "", items[i].uid)
                 /\ Len(items') = Len(items) - 1
                 /\ \A k \in 1..Len(items') :
                       items'[k] = IF k < i THEN items[k] ELSE items[k + 1]
                 /\ UNCHANGED failedItems]_vars

\* Dequeue returned an item admitted after one that is still pending, not yet
\* due and ahead of it in scan order
C31_Witness ==
    /\ last.op = "Dequeue"
    /\ last.err = ""
    /\ last.uid \in HeldUids
    /\ Len(items) >= 1
    /\ items[1].uid < last.uid
    /\ ~(items[1].NextRetry < now)

C40_DueNow ==
    [][(Dequeue /\ Len(items) = 1 /\ items[1].NextRetry = now) =>
          /\ last' = Call("Dequeue", "", items[1].uid)
          /\ items' = <<>>]_vars

\* how often Dequeue has returned the item: once per Retry call made on it,
\* and once more while a caller has it in hand
Returns(u) == Len(retryLog[u]) + (IF u \in HeldUids THEN 1 ELSE 0)

(***************************************************************************)
(* C33. Under a worker that keeps calling Dequeue and calls Retry on the   *)
(* dequeued item after each failed delivery, with time advancing, every    *)
(* admitted item eventually leaves the pending collection for good,        *)
(* delivered or recorded in the failed ledger, after Dequeue has returned  *)
(* it at most maxRetries + 1 times.                                        *)
(***************************************************************************)
C33_RetriesTerminate ==
    /\ [](\A u \in 1..MaxItems : Returns(u) <= MaxRetries + 1)
    /\ [][\A it \in held :
            (it \notin held' /\ it.uid \notin PendingUids') =>
                Consume(it) \/ it.uid \in FailedUids']_vars
    /\ \A u \in 1..MaxItems : <>[](u \notin PendingUids /\ u \notin HeldUids)

\* an item went to the failed ledger after maxRetries + 1 failed deliveries
C33_Witness ==
    \E u \in 1..MaxItems :
        /\ Len(retryLog[u]) = MaxRetries + 1
        /\ u \in FailedUids
        /\ u \notin PendingUids
        /\ u \notin HeldUids

(***************************************************************************)
(* C34. persistToDisk is serialized with the queue's mutators by the queue *)
(* lock: no Enqueue, Dequeue, Retry, RequeueFailedItem or ClearFailedItems *)
(* takes effect between the start and the end of a run, so the pending     *)
(* contents and the failed contents written in one cycle are those of one  *)
(* single state of the queue.                                              *)
(***************************************************************************)
C34_PersistSerialized ==
    /\ [][persistPc = "mid" => (UNCHANGED <<items, failedItems>> \/ NewQueue)]_vars
    /\ [](persistPc = "mid" => itemsFile = EncodeItems(items))
    /\ [][PersistFailed =>
            /\ itemsFile' = EncodeItems(items)
            /\ failedFile' = EncodeFailed(failedItems)]_vars

\* a cycle has written a pending item and a failed item, both as in memory
C34_Witness ==
    /\ persistPc = "idle"
    /\ itemsFile.exists /\ failedFile.exists
    /\ Len(items) >= 1 /\ Len(failedItems) >= 1
    /\ itemsFile = EncodeItems(items)
    /\ failedFile = EncodeFailed(failedItems)

(***************************************************************************)
(* C35. If the process stops at any point, also between the write of the   *)
(* pending file and the write of the failed file of one cycle, the queue   *)
(* that NewQueue rebuilds has no item in both the pending collection and   *)
(* the failed ledger, and no item of the persisted state is missing from   *)
(* both.                                                                   *)
(***************************************************************************)
C35_CrashConsistent ==
    [][NewQueue =>
         /\ PendingUids' \cap FailedUids' = {}
         /\ \A u \in snap \cap (PendingUids \cup FailedUids) :
               u \in PendingUids' \cup FailedUids']_vars

\* the steps of Start, Stop and Restart that run between s.mu.Lock() and s.mu.Unlock()
LockedStep ==
    \E t \in Threads : StartLock(t) \/ StopLock(t) \/ RestartReset(t)

\* goroutine t is at a statement that reads or writes s.listeners without the lock:
\* the append of Start, the range loop of Stop, the reset to nil of Stop
TouchesListeners(t) == ~panicked /\ ctl[t].pc \in {"StartListen", "StopClose", "StopNil"}

\* goroutine t is at a statement that writes s.listeners without the lock
WritesListeners(t) == ~panicked /\ ctl[t].pc \in {"StartListen", "StopNil"}

\* C36: the running flag, the listener list and the quit channel are written only
\* in steps that hold the Server lock, and no two goroutines are ever at
\* statements that access the listener list without the lock, one of them writing
C36_UnderLock ==
    /\ [][(running' # running \/ listeners' # listeners \/ quit' # quit)
             => LockedStep]_vars
    /\ [](\A t, u \in Threads :
             (t # u /\ WritesListeners(t)) => ~TouchesListeners(u))

\* C37: a read error in the gate, in the command loop or while the body is read
\* ends the Session at once: the step writes no response and relays nothing, the
\* Session is closed after it, and a closed Session writes and relays no more
C37_ReadErrorTerminates ==
    /\ [][ReadError => /\ sPc' = "closed"
                       /\ sOut' = sOut
                       /\ relays' = relays]_vars
    /\ [][(sPc = "body" /\ sPc' = "closed") => relays' = relays]_vars
    /\ [][sPc = "closed" => (sPc' = "closed" /\ sOut' = sOut /\ relays' = relays)]_vars

\* a Session that ended on a read error inside the DATA body: the last response
\* is the 354 and nothing was relayed
C37_Witness ==
    /\ sPc = "closed"
    /\ Len(sOut) > 0
    /\ LastOut = "354 Start mail input; end with <CRLF>.<CRLF>"
    /\ sFrom # ""
    /\ sTo # ""
    /\ relays = <<>>

\* the number of times the greeting line was written to the connection
GreetingCount == Cardinality({i \in 1..Len(sOut) : sOut[i].text = Greeting})

\* C38: a Session writes the greeting exactly once on every listener type: once
\* it is past the connect checks it has written it once, and it never writes it
\* a second time, also not after the upgrade on a starttls listener
C38_GreetingOnce ==
    /\ GreetingCount <= 1
    /\ sPc \in {"gate", "loop", "body", "relay"} => GreetingCount = 1

\* the lines of a client whose command token is cmd
LinesOf(cmd) == {line \in Lines : HasFields(line) /\ ToUpper(FirstField(line)) = cmd}

\* C39: the envelope across commands. A DATA line read in the command loop
\* starts the body whatever the envelope holds; from and to change only when a
\* MAIL or RCPT line is read and then hold what that line carries; the message
\* is relayed with the from and to held at that moment; nothing between the
\* DATA line and the next command changes them, so a later DATA reuses them
C39_Envelope ==
    /\ [][(\E line \in LinesOf("DATA") : LoopLine(line))
             => (sPc' = "body" /\ sFrom' = sFrom /\ sTo' = sTo)]_vars
    /\ [][sFrom' # sFrom
             => \E line \in LinesOf("MAIL") :
                   /\ LoopLine(line)
                   /\ sFrom' = TrimSuffix(TrimPrefix(line, "MAIL FROM:<"), ">")]_vars
    /\ [][sTo' # sTo
             => \E line \in LinesOf("RCPT") :
                   /\ LoopLine(line)
                   /\ sTo' = TrimSuffix(TrimPrefix(line, "RCPT TO:<"), ">")]_vars
    /\ [][Len(relays') > Len(relays)
             => /\ Len(relays') = Len(relays) + 1
                /\ relays'[Len(relays')].from = sFrom
                /\ relays'[Len(relays')].to = sTo]_vars
    /\ [][(sPc = "body" \/ sPc = "relay") => (sFrom' = sFrom /\ sTo' = sTo)]_vars

\* one Session relayed two messages after a single MAIL and a single RCPT: the
\* second DATA reused the envelope of the first
C39_Witness ==
    /\ Len(relays) = 2
    /\ relays[1].from # ""
    /\ relays[1].to # ""
    /\ relays[2].from = relays[1].from
    /\ relays[2].to = relays[1].to
    /\ sReads = 4

\* a Session relayed a message although no MAIL and no RCPT line came before DATA
C39_WitnessEmpty == Len(relays) >= 1 /\ relays[1].from = "" /\ relays[1].to = ""

====
